---- MODULE Spec2Model ----
(***************************************************************************)
(* Anchorr: the Jellyfin "item added" notification engine.                 *)
(*                                                                         *)
(*   jellyfinWebhook.js (src/unnamed/part_003)  webhook producer, the      *)
(*       debounce coordinator (debouncedSenders, sentNotifications) and    *)
(*       processAndSendNotification                                        *)
(*   jellyfinPoller.js                          polling producer           *)
(*   jellyfinWebSocket.js                       push-socket producer       *)
(*                                                                         *)
(* Time is counted in ticks of 8 hours: the 24 h retention windows are 3   *)
(* ticks, and WEBHOOK_DEBOUNCE_MS is taken as 2 ticks (the window is       *)
(* configurable; only "window < retention" and the integer arithmetic of   *)
(* the timers matter below).  Timers fire on time: the clock does not pass *)
(* a deadline while its callback is still pending.                         *)
(***************************************************************************)
EXTENDS Integers, Sequences, FiniteSets, TLC

VARIABLES
    now,                    \* Date.now(), in ticks
    crashed,                \* process.exit(1) was called
    method,                 \* the notification method in use: webhook, polling or websocket
    notificationLibraries,  \* JELLYFIN_NOTIFICATION_LIBRARIES (library id -> channel id)
    debouncedSenders,       \* Map SeriesId -> {sender, latestData, episodeCount}
    sentNotifications,      \* Map SeriesId -> {level, cleanupTimer}
    cleanupTimers,          \* pending 24 h setTimeout callbacks (never cleared)
    pendingRequests,        \* Map "<tmdbId>-<movie|tv>" -> requesters (keys kept)
    numSent,                \* number of channel.send() calls that succeeded
    lastSent,               \* the last notification delivered
    skipReason,             \* why the last step dropped its event ("" when it did not)
    pollerSeenItems,        \* JellyfinPoller.seenItems
    pollRuns,               \* running JellyfinPoller.poll() invocations
    socketSeenItems,        \* JellyfinWebSocketClient.seenItems
    socketRuns,             \* running handleLibraryChanged() invocations
    burstFirst,             \* observer: arrival time of the first event of the key's burst
    burstNotifs,            \* observer: notifications delivered for events of that burst
    seriesFiredAt,          \* observer: time of the key's last Series-level firing
    handoffs,               \* observer: per producer and item, stamps handed to the notifier
    notifyDisabled,         \* item types whose JELLYFIN_NOTIFY_* toggle is "false"
    discordClient,          \* app.js discordClient: 0 for null, else the number of the client
    clientsCreated,         \* number of Discord clients created so far
    resolve,                \* one library resolution: its inputs, its progress and its result
    excludedLibraries,      \* JELLYFIN_EXCLUDED_LIBRARIES of config.json, as a set of ids
    perm,                   \* one permission value and what lib/permissions.js says of it
    inFlight,               \* webhook requests awaiting the library detection
    wsClient,               \* the JellyfinWebSocketClient: its fields, sockets and timers
    auth,                   \* the USERS list of the config file and the register requests in progress
    tracking,               \* pendingRequests with its requesters, and the notifications sending their DMs
    bot,                    \* isBotRunning and discordClient of app.js with the clients created
    caches                  \* the four caches of the Jellyseerr client, its clock and its last answer

vars == <<now, crashed, method, notificationLibraries, debouncedSenders, sentNotifications,
          cleanupTimers, pendingRequests, numSent, lastSent, skipReason,
          pollerSeenItems, pollRuns, socketSeenItems, socketRuns,
          burstFirst, burstNotifs, seriesFiredAt, handoffs,
          notifyDisabled, discordClient, clientsCreated, resolve, excludedLibraries, perm,
          inFlight, wsClient, auth, tracking, bot, caches>>

webhookVars == <<debouncedSenders, sentNotifications, cleanupTimers>>
pollerVars == <<pollerSeenItems, pollRuns>>
socketVars == <<socketSeenItems, socketRuns>>
observerVars == <<burstFirst, burstNotifs, seriesFiredAt, handoffs>>
botVars == <<discordClient, clientsCreated>>
engineVars == <<now, crashed, method, notificationLibraries, debouncedSenders, sentNotifications,
                cleanupTimers, pendingRequests, numSent, lastSent, skipReason,
                pollerSeenItems, pollRuns, socketSeenItems, socketRuns,
                burstFirst, burstNotifs, seriesFiredAt, handoffs,
                notifyDisabled, discordClient, clientsCreated, excludedLibraries, inFlight>>
configVars == <<notifyDisabled, excludedLibraries>>
serviceVars == <<wsClient, auth, tracking, bot, caches>>

(***************************************************************************)
(* Bounds of the model.                                                    *)
(***************************************************************************)
MaxTime == 6
MaxSent == 2
MaxEpisodes == 2
MaxClients == 2
ShortHorizon == 3
MaxAncestors == 8
MaxFailAt == 4

\* how many permission constants a drawn permission value unites
MaxBits == 2

\* how many webhook requests await the library detection at a time
MaxInFlight == 2

\* how many sockets the push-socket client creates
MaxSockets == 7

\* how many of them are not yet closed at a time, and how many timers are pending
MaxLive == 2
MaxTimers == 2

\* how many register requests are received
MaxRegistrations == 3

\* notifications processed at a time; requests counted per user and key; Sets stored
MaxNotifying == 2
MaxAsked == 2
MaxEntries == 3

\* Discord clients created; handlers of one kind suspended in client.destroy()
MaxBotClients == 3
MaxAwaiting == 1

\* the clock of the caches, and the time a cached list stays valid, in ticks
MaxCacheTime == 3
CACHE_TTL == 2

(***************************************************************************)
(* Program constants, in ticks.                                            *)
(***************************************************************************)
WEBHOOK_DEBOUNCE_MS == 2
SENT_CLEANUP_MS == 3
SEEN_THRESHOLD == 3
SEVEN_DAYS == 21

\* the reconnect delays of the push-socket client, in milliseconds
baseReconnectDelay == 1000
maxReconnectDelay == 60000

MAX_DEPTH == 5

(***************************************************************************)
(* Values.                                                                 *)
(***************************************************************************)
Null == "null"
Undefined == "undefined"
Truthy(v) == v \notin {"", Null, Undefined}
Or(a, b) == IF Truthy(a) THEN a ELSE b

JELLYFIN_CHANNEL_ID == "chDefault"
NOTIFY_ON_AVAILABLE == TRUE

SeriesIds == {"S"}

Data(type, id, series, tmdb) ==
    [ItemType |-> type, ItemId |-> id, SeriesId |-> series, Provider_tmdb |-> tmdb]

\* The webhook payloads the Jellyfin plugin posts.
WebhookPayloads ==
    { Data("Series", "S", "S", "t1"),
      Data("Season", "s1", "S", "t1"),
      Data("Episode", "e1", "S", "t1"),
      Data("Episode", "e2", "S", "t1"),
      Data("Episode", "e3", "", ""),
      Data("Movie", "m1", "", "t2"),
      Data("MusicAlbum", "a1", "", "") }

\* Payloads that lack the item identifier or the item type.
MalformedPayloads ==
    { Data("Movie", "", "", "t2"),
      Data("", "x1", "", "") }

NoData == Data("", "", "", "")

\* What library detection can come back with: nothing, a library mapped to a
\* channel, a library mapped to "" (no channel selected), an unmapped library.
LibraryIds == {Null, "libA", "libB", "libX"}

EmptyMapping == [l \in {} |-> ""]
ChannelMapping == [l \in {"libA", "libB"} |-> IF l = "libA" THEN "chA" ELSE ""]

Lookup(mapping, key) == IF key \in DOMAIN mapping THEN mapping[key] ELSE Undefined

\* client.channels.fetch(id) resolves only for a channel that exists.
ChannelExists(channelId) == channelId \in {JELLYFIN_CHANNEL_ID, "chA"}

getItemLevel(itemType) ==
    CASE itemType = "Series" -> 3
      [] itemType = "Season" -> 2
      [] itemType = "Episode" -> 1
      [] OTHER -> 0

Max(a, b) == IF a >= b THEN a ELSE b


(***************************************************************************)
(* processAndSendNotification: the pending-request bookkeeping runs before *)
(* the first await; channels.fetch / channel.send then resolve or reject.  *)
(* outcome is the answer of Discord ("ok" or "fail").                      *)
(***************************************************************************)
RequestKey(data) ==
    IF data.ItemType = "Movie" THEN data.Provider_tmdb \o "-movie"
    ELSE IF data.ItemType \in {"Series", "Season", "Episode"} THEN data.Provider_tmdb \o "-tv"
    ELSE ""

TakeRequesters(requests, data) ==
    IF NOTIFY_ON_AVAILABLE /\ Truthy(data.Provider_tmdb)
    THEN requests \ {RequestKey(data)}
    ELSE requests

\* the answers of Discord
Outcomes == {"ok", "fail"}

Delivered(targetChannelId, outcome) ==
    outcome = "ok" /\ ChannelExists(Or(targetChannelId, JELLYFIN_CHANNEL_ID))

\* authorName / embedTitle variant chosen by the switch on ItemType
Phrasing(data, episodeCount) ==
    IF data.ItemType = "Episode" /\ episodeCount > 1 THEN "episodes-batch" ELSE data.ItemType

\* variant: every notification goes to the default channel
Notification_toDefault(data, targetChannelId, episodeCount) ==
    [ItemId |-> data.ItemId, ItemType |-> data.ItemType,
     SeriesId |-> data.SeriesId, channel |-> JELLYFIN_CHANNEL_ID,
     episodeCount |-> episodeCount, phrasing |-> Phrasing(data, episodeCount)]

Notification(data, targetChannelId, episodeCount) ==
    [ItemId |-> data.ItemId, ItemType |-> data.ItemType,
     SeriesId |-> data.SeriesId, channel |-> Or(targetChannelId, JELLYFIN_CHANNEL_ID),
     episodeCount |-> episodeCount, phrasing |-> Phrasing(data, episodeCount)]

NoNotification == Notification(NoData, "", 0)

processAndSendNotification(data, targetChannelId, episodeCount, outcome) ==
    /\ pendingRequests' = TakeRequesters(pendingRequests, data)
    /\ IF Delivered(targetChannelId, outcome)
       THEN /\ numSent < MaxSent
            /\ numSent' = numSent + 1
            /\ lastSent' = Notification(data, targetChannelId, episodeCount)
       ELSE UNCHANGED <<numSent, lastSent>>

(***************************************************************************)
(* Observers of bursts: an event for a key opens a burst when none is open *)
(* or when it arrives a full window after the burst's first event.         *)
(***************************************************************************)
OpensBurst(k, t) == burstFirst[k] = 0 \/ t >= burstFirst[k] + WEBHOOK_DEBOUNCE_MS
FirstAfterArrival(k, t) == IF OpensBurst(k, t) THEN t ELSE burstFirst[k]
NotifsAfterArrival(k, t) == IF OpensBurst(k, t) THEN 0 ELSE burstNotifs[k]
InBurst(first, arr) == first # 0 /\ arr >= first /\ arr < first + WEBHOOK_DEBOUNCE_MS

(***************************************************************************)
(* Channel routing of the webhook handler.                                 *)
(***************************************************************************)
\* variant: a library that is not a key of the mapping goes to the default channel
WebhookRoute_open(mapping, libraryId) ==
    IF DOMAIN mapping # {} /\ Truthy(libraryId) /\ libraryId \in DOMAIN mapping
    THEN [skip |-> FALSE, channel |-> Or(mapping[libraryId], JELLYFIN_CHANNEL_ID)]
    ELSE [skip |-> FALSE, channel |-> JELLYFIN_CHANNEL_ID]

WebhookRoute(mapping, libraryId) ==
    IF DOMAIN mapping # {} /\ Truthy(libraryId) /\ libraryId \in DOMAIN mapping
    THEN [skip |-> FALSE, channel |-> Or(mapping[libraryId], JELLYFIN_CHANNEL_ID)]
    ELSE IF DOMAIN mapping # {} /\ Truthy(libraryId)
    THEN [skip |-> TRUE, channel |-> ""]
    ELSE [skip |-> FALSE, channel |-> JELLYFIN_CHANNEL_ID]

(***************************************************************************)
(* The debounce coordinator.  A sender is the lodash debounce() object of  *)
(* a SeriesId (trailing edge, no maxWait) with the data kept next to it.   *)
(* opened, lastEventAt, epSeen, maxLevel and arr are observers.            *)
(***************************************************************************)
NoSender ==
    [pending |-> FALSE, latestData |-> NoData, episodeCount |-> 0, lastCallTime |-> 0,
     libraryChannelId |-> "", client |-> 0, opened |-> 0, lastEventAt |-> 0,
     epSeen |-> 0, maxLevel |-> 0, arr |-> 0]

NoSent == [has |-> FALSE, level |-> 0, cleanupTimer |-> 0]

\* variant: nothing is recorded
SentRecord_none(levelSent, cleanupTimer) == NoSent

\* sentNotifications.set(SeriesId, { level, cleanupTimer })
SentRecord(levelSent, cleanupTimer) ==
    [has |-> TRUE, level |-> levelSent, cleanupTimer |-> cleanupTimer]

SentLevel(SeriesId) ==
    IF SeriesId \in DOMAIN sentNotifications /\ sentNotifications[SeriesId].has
    THEN sentNotifications[SeriesId].level
    ELSE 0

\* variant: only a strictly lower level is superseded
IsSuperseded_strict(currentLevel, sentLevel) == currentLevel < sentLevel

IsSuperseded(currentLevel, sentLevel) == currentLevel <= sentLevel

\* variant: only a strictly higher level replaces the data held
ShouldReplace_strict(currentLevel, existingLevel) == currentLevel > existingLevel

ShouldReplace(currentLevel, existingLevel) == currentLevel >= existingLevel

InitialEpisodeCount(itemType) == IF itemType = "Episode" THEN 1 ELSE 0

NewSender(data, libraryChannelId, t) ==
    [pending |-> TRUE, latestData |-> data,
     episodeCount |-> InitialEpisodeCount(data.ItemType), lastCallTime |-> 0,
     libraryChannelId |-> libraryChannelId, client |-> discordClient,
     opened |-> t, lastEventAt |-> t,
     epSeen |-> 0, maxLevel |-> 0, arr |-> t]

\* variant: a one-shot timer, armed by the first call and never re-armed
DebounceCall_oneShot(sender, t) ==
    IF sender.lastCallTime = 0 THEN [sender EXCEPT !.lastCallTime = t] ELSE sender

\* debounced(...): lodash records the call time and re-arms the timer from it
DebounceCall(sender, t) == [sender EXCEPT !.lastCallTime = t]

\* lodash timerExpired/shouldInvoke: the wait has passed since the last call
TimerDue(sender, t) == sender.pending /\ t - sender.lastCallTime >= WEBHOOK_DEBOUNCE_MS

UpdateSender(sender, data, t) ==
    LET replace == ShouldReplace(getItemLevel(data.ItemType),
                                 getItemLevel(sender.latestData.ItemType))
        episode == data.ItemType = "Episode"
    IN  [sender EXCEPT
            !.latestData = IF replace THEN data ELSE @,
            !.arr = IF replace THEN t ELSE @,
            !.episodeCount = IF episode THEN @ + 1 ELSE @,
            !.epSeen = IF episode THEN @ + 1 ELSE @,
            !.maxLevel = Max(@, getItemLevel(data.ItemType)),
            !.lastEventAt = t]

IsTv(data) == data.ItemType \in {"Series", "Season", "Episode"}

\* variant: every TV event is taken to have a SeriesId
HasSeriesId_always(data) == TRUE

\* !SeriesId
HasSeriesId(data) == Truthy(data.SeriesId)

NoteArrival(data) ==
    IF IsTv(data) /\ data.SeriesId \in SeriesIds
    THEN /\ burstFirst' = [burstFirst EXCEPT ![data.SeriesId] = FirstAfterArrival(data.SeriesId, now)]
         /\ burstNotifs' = [burstNotifs EXCEPT ![data.SeriesId] = NotifsAfterArrival(data.SeriesId, now)]
    ELSE UNCHANGED <<burstFirst, burstNotifs>>

\* handleJellyfinWebhook from the point where the library id is known
AfterDetection(data, libraryId, outcome) ==
    LET route == WebhookRoute(notificationLibraries, libraryId)
        SeriesId == data.SeriesId
        currentLevel == getItemLevel(data.ItemType)
        sender == IF debouncedSenders[SeriesId].pending
                  THEN debouncedSenders[SeriesId]
                  ELSE NewSender(data, route.channel, now)
    IN
    /\ ~crashed
    /\ UNCHANGED <<configVars, serviceVars, botVars, resolve, perm>>
    /\ method = "webhook"
    \* app.js answers 503 and does not call the handler while the bot is stopped
    /\ discordClient # 0
    /\ UNCHANGED <<now, crashed, method, notificationLibraries, cleanupTimers, sentNotifications,
                   pollerVars, socketVars, seriesFiredAt, handoffs>>
    /\ \/ /\ ~Truthy(data.ItemId)
          /\ skipReason' = "invalid"
          /\ UNCHANGED <<debouncedSenders, pendingRequests, numSent, lastSent,
                         burstFirst, burstNotifs>>
       \/ /\ Truthy(data.ItemId)
          /\ route.skip
          /\ skipReason' = "library"
          /\ UNCHANGED <<debouncedSenders, pendingRequests, numSent, lastSent,
                         burstFirst, burstNotifs>>
       \/ /\ Truthy(data.ItemId)
          /\ ~route.skip
          /\ data.ItemType = "Movie"
          /\ processAndSendNotification(data, route.channel, 0, outcome)
          /\ skipReason' = ""
          /\ UNCHANGED <<debouncedSenders, burstFirst, burstNotifs>>
       \/ /\ Truthy(data.ItemId)
          /\ ~route.skip
          /\ IsTv(data)
          /\ IsSuperseded(currentLevel, SentLevel(SeriesId))
          /\ skipReason' = "level"
          /\ NoteArrival(data)
          /\ UNCHANGED <<debouncedSenders, pendingRequests, numSent, lastSent>>
       \/ /\ Truthy(data.ItemId)
          /\ ~route.skip
          /\ IsTv(data)
          /\ ~IsSuperseded(currentLevel, SentLevel(SeriesId))
          /\ ~HasSeriesId(data)
          /\ processAndSendNotification(data, route.channel, 0, outcome)
          /\ skipReason' = ""
          /\ UNCHANGED <<debouncedSenders, burstFirst, burstNotifs>>
       \/ /\ Truthy(data.ItemId)
          /\ ~route.skip
          /\ IsTv(data)
          /\ ~IsSuperseded(currentLevel, SentLevel(SeriesId))
          /\ HasSeriesId(data)
          /\ data.ItemType = "Episode" => sender.epSeen < MaxEpisodes
          /\ debouncedSenders' =
                [debouncedSenders EXCEPT
                    ![SeriesId] = DebounceCall(UpdateSender(sender, data, now), now)]
          /\ skipReason' = ""
          /\ NoteArrival(data)
          /\ UNCHANGED <<pendingRequests, numSent, lastSent>>
       \* any other item type: sent at once, without the library's channel
       \/ /\ Truthy(data.ItemId)
          /\ ~route.skip
          /\ data.ItemType # "Movie"
          /\ ~IsTv(data)
          /\ processAndSendNotification(data, Null, 0, outcome)
          /\ skipReason' = ""
          /\ UNCHANGED <<debouncedSenders, burstFirst, burstNotifs>>

\* a request that no other request overtakes while it awaits the detection
handleJellyfinWebhook(data, libraryId, outcome) ==
    /\ AfterDetection(data, libraryId, outcome)
    /\ UNCHANGED inFlight

\* the payloads of the requests that arrive while another one is suspended
ConcurrentPayloads ==
    {data \in WebhookPayloads : IsTv(data) /\ data.SeriesId \in SeriesIds}

Request(slot, data) == [slot |-> slot, data |-> data]

FreeSlot(slot) ==
    /\ \A r \in inFlight : r.slot # slot
    /\ \A other \in 1..(slot - 1) : \E r \in inFlight : r.slot = other

\* handleJellyfinWebhook up to its await of fetchLibraries and
\* findLibraryByAncestors: the payload names no library
Receive(slot, data) ==
    /\ ~crashed
    /\ method = "webhook"
    /\ discordClient # 0
    /\ Truthy(data.ItemId)
    /\ slot \in 1..MaxInFlight
    /\ FreeSlot(slot)
    /\ inFlight' = inFlight \cup {Request(slot, data)}
    /\ UNCHANGED <<now, crashed, method, notificationLibraries, webhookVars, pendingRequests,
                   numSent, lastSent, skipReason, pollerVars, socketVars, observerVars,
                   configVars, serviceVars, botVars, resolve, perm>>

\* the detection of a suspended request answers and the handler runs on
Resume(request, libraryId, outcome) ==
    /\ request \in inFlight
    /\ AfterDetection(request.data, libraryId, outcome)
    /\ inFlight' = inFlight \ {request}

\* the debounced callback: the trailing-edge timer of a SeriesId expires
DebouncedSenderFires(SeriesId, outcome) ==
    LET d == debouncedSenders[SeriesId]
        levelSent == getItemLevel(d.latestData.ItemType)
        \* the callback holds the client of the request that created the sender;
        \* a destroyed client rejects every request
        answer == IF d.client = discordClient THEN outcome ELSE "fail"
        sent == Delivered(d.libraryChannelId, answer)
    IN
    /\ ~crashed
    /\ UNCHANGED <<configVars, serviceVars, botVars, resolve, perm, inFlight>>
    /\ TimerDue(d, now)
    /\ processAndSendNotification(d.latestData, d.libraryChannelId,
                                  d.episodeCount, answer)
    \* the promise is neither awaited nor caught: a rejection reaches
    \* process.on("unhandledRejection"), which calls process.exit(1)
    /\ crashed' = ~sent
    /\ cleanupTimers' = cleanupTimers \cup
            {[SeriesId |-> SeriesId, deadline |-> now + SENT_CLEANUP_MS]}
    /\ sentNotifications' =
            [sentNotifications EXCEPT
                ![SeriesId] = SentRecord(levelSent, now + SENT_CLEANUP_MS)]
    /\ debouncedSenders' = [debouncedSenders EXCEPT ![SeriesId] = NoSender]
    /\ skipReason' = ""
    /\ burstNotifs' =
            [burstNotifs EXCEPT
                ![SeriesId] = IF sent /\ InBurst(burstFirst[SeriesId], d.arr)
                              THEN @ + 1 ELSE @]
    /\ seriesFiredAt' =
            [seriesFiredAt EXCEPT ![SeriesId] = IF sent /\ levelSent = 3 THEN now ELSE @]
    /\ UNCHANGED <<now, method, notificationLibraries, pollerVars, socketVars, burstFirst, handoffs>>

\* the 24 h cleanup callback of a sent notification
CleanupTimerFires(timer) ==
    /\ ~crashed
    /\ UNCHANGED <<configVars, serviceVars, botVars, resolve, perm, inFlight>>
    /\ timer \in cleanupTimers
    /\ timer.deadline <= now
    /\ sentNotifications' = [sentNotifications EXCEPT ![timer.SeriesId] = NoSent]
    /\ cleanupTimers' = cleanupTimers \ {timer}
    /\ UNCHANGED <<now, crashed, method, notificationLibraries, debouncedSenders, pendingRequests,
                   numSent, lastSent, pollerVars, socketVars, observerVars>>
    /\ skipReason' = ""

(***************************************************************************)
(* The polling producer.  Every cycle reads the same recently added items  *)
(* of the catalog; cycles overlap when one is still awaiting Jellyfin or   *)
(* Discord as the interval timer starts the next.                          *)
(***************************************************************************)
Item(id, type, series, tmdb) == [Id |-> id, Type |-> type, SeriesId |-> series, Tmdb |-> tmdb]

RecentlyAdded == << Item("e1", "Episode", "S", "t1"), Item("S", "Series", "", "t1") >>

ItemIds == {RecentlyAdded[i].Id : i \in 1..Len(RecentlyAdded)}

\* two invocations can be in flight at a time; a new one takes the first free slot
Runs == {1, 2}

FirstFree(runs, run) == ~runs[run].running /\ \A r \in Runs : r < run => runs[r].running

NoRun == [running |-> FALSE, now |-> 0, idx |-> 0]

transformToWebhookFormat(item) ==
    Data(item.Type, item.Id,
         IF item.Type = "Series" THEN item.Id
         ELSE IF item.Type \in {"Season", "Episode"} THEN item.SeriesId ELSE "",
         item.Tmdb)

\* variant: a retention window one tick shorter
RecentlySeen_short(lastSeen, t) == lastSeen # 0 /\ t - lastSeen < SEEN_THRESHOLD - 1

\* variant: the record is kept one tick longer
RecentlySeen_long(lastSeen, t) == lastSeen # 0 /\ t - lastSeen < SEEN_THRESHOLD + 1

\* lastSeen && now - lastSeen < 24 h   (0 stands for "no entry")
RecentlySeen(lastSeen, t) == lastSeen # 0 /\ t - lastSeen < SEEN_THRESHOLD

PollerRoute(mapping, configLibraryId) ==
    IF DOMAIN mapping # {} /\ ~Truthy(Lookup(mapping, configLibraryId))
    THEN [skip |-> TRUE, channel |-> ""]
    ELSE [skip |-> FALSE, channel |-> Or(Lookup(mapping, configLibraryId), JELLYFIN_CHANNEL_ID)]

\* the sweep at the end of poll(): entries older than 7 days
SweepSeen(seen, t) ==
    [i \in DOMAIN seen |-> IF seen[i] # 0 /\ seen[i] < t - SEVEN_DAYS THEN 0 ELSE seen[i]]

\* observer: which routing rule suppressed the event
LibrarySkip(mapping, libraryId) ==
    IF ~Truthy(libraryId) THEN "nolibrary"
    ELSE IF libraryId \in DOMAIN mapping THEN "blank"
    ELSE "library"

NotePassed(producer, itemId, stamp) ==
    handoffs' = [handoffs EXCEPT ![producer][itemId] = Append(@, stamp)]

\* a notification delivered by the poller or the socket client for an item
\* that arrives now
NoteImmediate(data, sent) ==
    IF IsTv(data) /\ data.SeriesId \in SeriesIds
    THEN /\ burstFirst' = [burstFirst EXCEPT ![data.SeriesId] = FirstAfterArrival(data.SeriesId, now)]
         /\ burstNotifs' = [burstNotifs EXCEPT ![data.SeriesId] =
                                NotifsAfterArrival(data.SeriesId, now) + (IF sent THEN 1 ELSE 0)]
    ELSE UNCHANGED <<burstFirst, burstNotifs>>

\* poll(): Date.now() is read once, then libraries and items are fetched
StartPoll(run) ==
    /\ ~crashed
    /\ UNCHANGED <<configVars, serviceVars, botVars, resolve, perm, inFlight>>
    /\ method = "polling"
    /\ FirstFree(pollRuns, run)
    /\ pollRuns' = [pollRuns EXCEPT ![run] = [running |-> TRUE, now |-> now, idx |-> 1]]
    /\ UNCHANGED <<now, crashed, method, notificationLibraries, webhookVars, pendingRequests, numSent,
                   lastSent, pollerSeenItems, socketVars, observerVars>>
    /\ skipReason' = ""

\* one turn of the loop "for (const item of items)"; after the last item the
\* sweep runs and poll() returns
PollItem(run, libraryId, outcome) ==
    LET r == pollRuns[run]
        item == RecentlyAdded[r.idx]
        route == PollerRoute(notificationLibraries, libraryId)
        webhookData == transformToWebhookFormat(item)
        last == r.idx = Len(RecentlyAdded)
        marked == [pollerSeenItems EXCEPT ![item.Id] = r.now]
    IN
    /\ ~crashed
    /\ UNCHANGED <<configVars, serviceVars, botVars, resolve, perm, inFlight>>
    /\ r.running
    /\ pollRuns' = [pollRuns EXCEPT ![run] = IF last THEN NoRun ELSE [r EXCEPT !.idx = @ + 1]]
    /\ UNCHANGED <<now, crashed, method, notificationLibraries, webhookVars, socketVars, seriesFiredAt>>
    /\ \/ /\ item.Type \in notifyDisabled
          /\ skipReason' = "type"
          /\ pollerSeenItems' = IF last THEN SweepSeen(pollerSeenItems, r.now)
                                ELSE pollerSeenItems
          /\ UNCHANGED <<pendingRequests, numSent, lastSent, observerVars>>
       \/ /\ item.Type \notin notifyDisabled
          /\ RecentlySeen(pollerSeenItems[item.Id], r.now)
          /\ skipReason' = "seen"
          /\ pollerSeenItems' = IF last THEN SweepSeen(pollerSeenItems, r.now)
                                ELSE pollerSeenItems
          /\ UNCHANGED <<pendingRequests, numSent, lastSent, observerVars>>
       \/ /\ item.Type \notin notifyDisabled
          /\ ~RecentlySeen(pollerSeenItems[item.Id], r.now)
          /\ route.skip
          /\ skipReason' = LibrarySkip(notificationLibraries, libraryId)
          /\ pollerSeenItems' = IF last THEN SweepSeen(marked, r.now) ELSE marked
          /\ NotePassed("poller", item.Id, r.now)
          /\ UNCHANGED <<pendingRequests, numSent, lastSent, burstFirst, burstNotifs>>
       \/ /\ item.Type \notin notifyDisabled
          /\ ~RecentlySeen(pollerSeenItems[item.Id], r.now)
          /\ ~route.skip
          /\ processAndSendNotification(webhookData, route.channel, 0, outcome)
          /\ skipReason' = ""
          /\ pollerSeenItems' = IF last THEN SweepSeen(marked, r.now) ELSE marked
          /\ NotePassed("poller", item.Id, r.now)
          /\ NoteImmediate(webhookData, Delivered(route.channel, outcome))

(***************************************************************************)
(* The push-socket producer.  Every LibraryChanged message is handled by   *)
(* its own handleLibraryChanged(), which awaits processNewItem per item.   *)
(***************************************************************************)
ItemsAdded == [i \in 1..Len(RecentlyAdded) |-> RecentlyAdded[i]]

SocketRoute(mapping, libraryId) ==
    IF ~Truthy(libraryId)
    THEN [skip |-> TRUE, channel |-> ""]
    ELSE IF DOMAIN mapping # {} /\ ~Truthy(Lookup(mapping, libraryId))
    THEN [skip |-> TRUE, channel |-> ""]
    ELSE [skip |-> FALSE, channel |-> Or(Lookup(mapping, libraryId), JELLYFIN_CHANNEL_ID)]

handleLibraryChanged(run) ==
    /\ ~crashed
    /\ UNCHANGED <<configVars, serviceVars, botVars, resolve, perm, inFlight>>
    /\ method = "websocket"
    /\ FirstFree(socketRuns, run)
    /\ socketRuns' = [socketRuns EXCEPT ![run] = [running |-> TRUE, now |-> 0, idx |-> 1]]
    /\ UNCHANGED <<now, crashed, method, notificationLibraries, webhookVars, pendingRequests, numSent,
                   lastSent, pollerVars, socketSeenItems, observerVars>>
    /\ skipReason' = ""

processNewItem(run, detailsOk, libraryId, outcome) ==
    LET r == socketRuns[run]
        item == ItemsAdded[r.idx]
        route == SocketRoute(notificationLibraries, libraryId)
        webhookData == transformToWebhookFormat(item)
        last == r.idx = Len(ItemsAdded)
    IN
    /\ ~crashed
    /\ UNCHANGED <<configVars, serviceVars, botVars, resolve, perm, inFlight>>
    /\ r.running
    /\ socketRuns' = [socketRuns EXCEPT ![run] = IF last THEN NoRun ELSE [r EXCEPT !.idx = @ + 1]]
    /\ UNCHANGED <<now, crashed, method, notificationLibraries, webhookVars, pollerVars, seriesFiredAt>>
    /\ \/ /\ RecentlySeen(socketSeenItems[item.Id], now)
          /\ skipReason' = "seen"
          /\ UNCHANGED <<socketSeenItems, pendingRequests, numSent, lastSent, observerVars>>
       \/ /\ ~RecentlySeen(socketSeenItems[item.Id], now)
          /\ socketSeenItems' = [socketSeenItems EXCEPT ![item.Id] = now]
          /\ NotePassed("socket", item.Id, now)
          /\ \/ /\ ~detailsOk
                /\ skipReason' = "details"
                /\ UNCHANGED <<pendingRequests, numSent, lastSent, burstFirst, burstNotifs>>
             \/ /\ detailsOk
                /\ route.skip
                /\ skipReason' = LibrarySkip(notificationLibraries, libraryId)
                /\ UNCHANGED <<pendingRequests, numSent, lastSent, burstFirst, burstNotifs>>
             \/ /\ detailsOk
                /\ ~route.skip
                /\ processAndSendNotification(webhookData, route.channel, 0, outcome)
                /\ skipReason' = ""
                /\ NoteImmediate(webhookData, Delivered(route.channel, outcome))

(***************************************************************************)
(* The bot: POST /api/stop-bot destroys the Discord client, POST           *)
(* /api/start-bot creates a new one.  The webhook module's maps are not    *)
(* touched by either.                                                      *)
(***************************************************************************)
\* variant: a stop that also drops the pending senders
StopBot_clearing ==
    /\ ~crashed
    /\ discordClient # 0
    /\ discordClient' = 0
    /\ skipReason' = ""
    /\ debouncedSenders' = [k \in DOMAIN debouncedSenders |-> NoSender]
    /\ UNCHANGED <<now, crashed, method, notificationLibraries, sentNotifications, cleanupTimers,
                   pendingRequests, numSent, lastSent, pollerVars, socketVars, observerVars,
                   configVars, serviceVars, clientsCreated, resolve, perm, inFlight>>

StopBot ==
    /\ ~crashed
    /\ discordClient # 0
    /\ discordClient' = 0
    /\ skipReason' = ""
    /\ UNCHANGED <<now, crashed, method, notificationLibraries, webhookVars, pendingRequests,
                   numSent, lastSent, pollerVars, socketVars, observerVars,
                   configVars, serviceVars, clientsCreated, resolve, perm, inFlight>>

StartBot ==
    /\ ~crashed
    /\ discordClient = 0
    /\ clientsCreated < MaxClients
    /\ clientsCreated' = clientsCreated + 1
    /\ discordClient' = clientsCreated + 1
    /\ skipReason' = ""
    /\ UNCHANGED <<now, crashed, method, notificationLibraries, webhookVars, pendingRequests,
                   numSent, lastSent, pollerVars, socketVars, observerVars,
                   configVars, serviceVars, resolve, perm, inFlight>>

\* no resolution in progress
(***************************************************************************)
(* Library resolution (api/jellyfin.js and its three callers).  A catalog  *)
(* is what the Jellyfin server answers: the parent of every item, the path *)
(* of every item, and which items a recursive query below a library finds. *)
(* Paths are sequences of characters.                                      *)
(***************************************************************************)
NoResolve == [phase |-> "idle"]

Library(ItemId, CollectionId, CollectionType, Locations) ==
    [ItemId |-> ItemId, CollectionId |-> CollectionId,
     CollectionType |-> CollectionType, Locations |-> Locations]

\* fetchLibraries: the virtual folders with their collection ids
fetchLibraries ==
    << Library("vM", "cM", "movies", << <<"/", "M">> >>),
       Library("vT", "cT", "tvshows", << <<"/", "T">> >>) >>

VirtualIds == { fetchLibraries[n].ItemId : n \in DOMAIN fetchLibraries }

CatalogItems == {"i", "f1", "f2", "f3", "f4", "f5", "f6", "cM", "cT", "vM", "vT", "root"}

\* every item of s has the next item of s as its parent
Chain(s) ==
    [id \in CatalogItems |->
        IF \E k \in 1..(Len(s) - 1) : s[k] = id
        THEN s[(CHOOSE k \in 1..(Len(s) - 1) : s[k] = id) + 1]
        ELSE Null]

\* an item without a Path has the empty path
NoPaths == [id \in CatalogItems |-> <<>>]

Catalog(parent, path, contains, items) ==
    [parent |-> parent, path |-> path, contains |-> contains, items |-> items]

CatalogNames == {"flat", "nested", "six", "deep", "cycle", "pathonly", "contained", "folder", "gone", "mixed"}

Catalogs ==
    [name \in CatalogNames |->
        CASE name = "flat" ->
               Catalog(Chain(<<"i", "cM", "root">>), NoPaths, {}, CatalogItems)
          [] name = "nested" ->
               Catalog(Chain(<<"i", "f1", "f2", "cT", "root">>), NoPaths, {}, CatalogItems)
          [] name = "six" ->
               Catalog(Chain(<<"i", "f1", "f2", "f3", "f4", "f5", "cM", "root">>),
                       NoPaths, {}, CatalogItems)
          [] name = "deep" ->
               Catalog(Chain(<<"i", "f1", "f2", "f3", "f4", "f5", "f6", "cM", "root">>),
                       NoPaths, {}, CatalogItems)
          [] name = "cycle" ->
               Catalog([Chain(<<"i", "f1", "f2">>) EXCEPT !["f2"] = "f1"],
                       NoPaths, {}, CatalogItems)
          [] name = "pathonly" ->
               Catalog(Chain(<<"i", "f1", "root">>),
                       [NoPaths EXCEPT !["f1"] = <<"\\", "m", "\\", "x">>], {}, CatalogItems)
          [] name = "contained" ->
               Catalog(Chain(<<"i", "f1", "root">>), NoPaths, {<<"vT", "f1">>}, CatalogItems)
          [] name = "folder" ->
               Catalog(Chain(<<"vM", "i">>), NoPaths, {}, CatalogItems)
          [] name = "gone" ->
               Catalog(Chain(<<"i", "cM", "root">>), NoPaths, {}, CatalogItems \ {"i"})
          \* a movies library whose folder lies inside the folder of a shows library
          [] name = "mixed" ->
               Catalog(Chain(<<"i", "f1", "cM", "cT", "root">>), NoPaths, {}, CatalogItems)]

ItemTypes == {"Movie", "Episode"}

\* String.prototype.toLowerCase on the type names
toLowerCase(s) ==
    CASE s = "Movie" -> "movie"
      [] s = "Series" -> "series"
      [] s = "Season" -> "season"
      [] s = "Episode" -> "episode"
      [] s = "Audio" -> "audio"
      [] OTHER -> s

\* one character of path.replace(/\\/g, "/").toLowerCase()
NormChar(c) ==
    CASE c = "\\" -> "/"
      [] c = "M" -> "m"
      [] c = "T" -> "t"
      [] OTHER -> c

NormPath(path) == [n \in 1..Len(path) |-> NormChar(path[n])]

startsWith(s, prefix) ==
    /\ Len(prefix) <= Len(s)
    /\ SubSeq(s, 1, Len(prefix)) = prefix

\* variant: every library type matches every item type
isTypeMatch_any(libType, itemType) == TRUE

isTypeMatch(libType, itemType) ==
    LET lib == toLowerCase(libType)
        item == toLowerCase(itemType)
        tv == item \in {"series", "season", "episode"}
    IN  IF ~Truthy(libType) \/ ~Truthy(itemType) THEN TRUE
        ELSE IF item = "movie" /\ lib = "movies" THEN TRUE
        ELSE IF tv /\ lib = "tvshows" THEN TRUE
        ELSE IF item = "audio" /\ lib = "music" THEN TRUE
        ELSE IF item = "movie" /\ lib = "tvshows" THEN FALSE
        ELSE IF tv /\ lib = "movies" THEN FALSE
        ELSE TRUE

Entry(key, library) == [key |-> key, library |-> library]

RECURSIVE LibraryMap(_)
\* the Map of the webhook handler: CollectionId and ItemId of every library
LibraryMap(libraries) ==
    IF libraries = <<>> THEN <<>>
    ELSE LET lib == Head(libraries)
         IN  (IF lib.ItemId # lib.CollectionId
              THEN <<Entry(lib.CollectionId, lib), Entry(lib.ItemId, lib)>>
              ELSE <<Entry(lib.CollectionId, lib)>>)
             \o LibraryMap(Tail(libraries))

\* a property read on a string value is undefined
StringProps == Library(Undefined, Undefined, Undefined, <<>>)

RECURSIVE LibraryIdSet(_)
\* the Set of the poller; its entries() are [value, value] pairs
LibraryIdSet(libraries) ==
    IF libraries = <<>> THEN <<>>
    ELSE LET lib == Head(libraries)
         IN  (IF Truthy(lib.CollectionId) /\ lib.CollectionId # lib.ItemId
              THEN <<Entry(lib.ItemId, StringProps), Entry(lib.CollectionId, StringProps)>>
              ELSE <<Entry(lib.ItemId, StringProps)>>)
             \o LibraryIdSet(Tail(libraries))

Has(entries, key) == \E n \in DOMAIN entries : entries[n].key = key

\* the poller's and the socket's Map from collection id to virtual folder id
libraryIdMap(libraryId) ==
    IF \E n \in DOMAIN fetchLibraries :
          /\ Truthy(fetchLibraries[n].CollectionId)
          /\ fetchLibraries[n].CollectionId # fetchLibraries[n].ItemId
          /\ fetchLibraries[n].CollectionId = libraryId
    THEN fetchLibraries[CHOOSE n \in DOMAIN fetchLibraries :
                            fetchLibraries[n].CollectionId = libraryId].ItemId
    ELSE libraryId

Ancestor(cat, id) ==
    [Id |-> id, Path |-> cat.path[id],
     Type |-> IF id = "root" THEN "AggregateFolder" ELSE "Folder"]

RECURSIVE Ancestors(_, _, _)
\* GET /Items/{id}/Ancestors: the parents of the item, nearest first
Ancestors(cat, itemId, n) ==
    IF n = 0 \/ cat.parent[itemId] = Null THEN <<>>
    ELSE <<Ancestor(cat, cat.parent[itemId])>> \o Ancestors(cat, cat.parent[itemId], n - 1)

NoFailure == [kind |-> "none", n |-> 0]

Failures ==
    {NoFailure} \cup { [kind |-> k, n |-> n] : k \in {"ancestors", "probe", "item"}, n \in 1..MaxFailAt }

Fails(failing, kind, n) == failing.kind = kind /\ failing.n = n

PathMatch(ancestor, library) ==
    /\ ancestor.Path # <<>>
    /\ library.Locations # <<>>
    /\ \E l \in DOMAIN library.Locations :
          startsWith(NormPath(ancestor.Path), NormPath(library.Locations[l]))

\* lines 145-181: the first ancestor and entry that match by id or by path
DirectHit(ancestors, libraryMap, itemType, a, e) ==
    /\ \/ ancestors[a].Id = libraryMap[e].library.CollectionId
       \/ ancestors[a].Id = libraryMap[e].library.ItemId
       \/ PathMatch(ancestors[a], libraryMap[e].library)
    /\ isTypeMatch(libraryMap[e].library.CollectionType, itemType)

\* lines 184-210: the recursive query of one library for one ancestor; probe
\* number p fails when the failure is at this probe
ProbeHit(cat, ancestors, libraryMap, itemType, failing, a, e) ==
    /\ ancestors[a].Type # "AggregateFolder"
    /\ isTypeMatch(libraryMap[e].library.CollectionType, itemType)
    /\ ~Fails(failing, "probe", (a - 1) * Len(libraryMap) + e)
    /\ <<libraryMap[e].library.ItemId, ancestors[a].Id>> \in cat.contains

\* the first pair <<a, e>> of hits in loop order (ancestors outside, entries
\* inside), or <<>>
FirstPair(hits) ==
    IF hits = {} THEN <<>>
    ELSE CHOOSE h \in hits :
           \A g \in hits : h[1] < g[1] \/ (h[1] = g[1] /\ h[2] <= g[2])

findLibraryByAncestors(itemId, libraryMap, itemType, cat, failing) ==
    LET ancestors == Ancestors(cat, itemId, MaxAncestors)
        pairs == (DOMAIN ancestors) \X (DOMAIN libraryMap)
        direct == FirstPair({ h \in pairs :
                                DirectHit(ancestors, libraryMap, itemType, h[1], h[2]) })
        probe == FirstPair({ h \in pairs :
                               ProbeHit(cat, ancestors, libraryMap, itemType, failing, h[1], h[2]) })
    IN  IF Fails(failing, "ancestors", 1) \/ itemId \notin cat.items THEN Null
        ELSE IF direct # <<>> THEN libraryMap[direct[2]].library.ItemId
        ELSE IF probe # <<>> THEN libraryMap[probe[2]].library.ItemId
        ELSE Null

Hints == {Null, "vM", "cM", "zz"}

Resolution(path, cat, itemType, hint, failing) ==
    [phase |-> "done", path |-> path, cat |-> cat, itemType |-> itemType, hint |-> hint,
     failing |-> failing, itemId |-> "i", depth |-> 0, hops |-> 0,
     libraryId |-> Null, key |-> Null, clean |-> Null]

\* part_003 lines 348-394: the id in the payload, else findLibraryByAncestors
DetectLibrary(cat, itemType, hint, failing) ==
    IF Truthy(hint) THEN hint
    ELSE findLibraryByAncestors("i", LibraryMap(fetchLibraries), itemType, Catalogs[cat], failing)

ResolveWebhook(cat, itemType, hint, failing) ==
    LET libraryId == DetectLibrary(cat, itemType, hint, failing)
    IN  /\ ~crashed
        /\ method = "webhook"
        /\ resolve.phase = "idle"
        /\ resolve' = [Resolution("webhook", cat, itemType, hint, failing) EXCEPT
                          !.libraryId = libraryId,
                          !.key = libraryId,
                          !.clean = DetectLibrary(cat, itemType, hint, NoFailure)]
        /\ UNCHANGED <<engineVars, serviceVars, perm>>

\* jellyfinPoller.js lines 202-247: the ParentId of /Items/Latest when it is
\* in libraryIds, else findLibraryId with the Set
ResolvePoller(cat, itemType, failing) ==
    LET ParentId == Catalogs[cat].parent["i"]
        start == Resolution("poller", cat, itemType, Null, failing)
    IN  /\ ~crashed
        /\ method = "polling"
        /\ resolve.phase = "idle"
        /\ resolve' = IF Truthy(ParentId) /\ Has(LibraryIdSet(fetchLibraries), ParentId)
                      THEN [start EXCEPT !.libraryId = ParentId,
                                         !.key = libraryIdMap(ParentId),
                                         !.clean = ParentId]
                      ELSE [start EXCEPT !.phase = "walking"]
        /\ UNCHANGED <<engineVars, serviceVars, perm>>

DepthExceeded_never(depth) == FALSE

DepthExceeded(depth) == depth > MAX_DEPTH

\* the first entry whose key or whose library.ItemId is id, or 0
FirstEntry(libraryMap, id) ==
    LET hits == { n \in DOMAIN libraryMap :
                    libraryMap[n].key = id \/ libraryMap[n].library.ItemId = id }
    IN  IF hits = {} THEN 0 ELSE CHOOSE n \in hits : \A m \in hits : n <= m

\* lines 317-339: the first library whose own ParentId is itemId; a request
\* with Ids undefined is answered with whatever the server lists first
ReverseHit(cat, libraryMap, itemId, anyMatch) ==
    LET hits == { n \in DOMAIN libraryMap :
                    IF libraryMap[n].library.ItemId = Undefined THEN anyMatch
                    ELSE cat.parent[libraryMap[n].library.ItemId] = itemId }
    IN  IF hits = {} THEN 0 ELSE CHOOSE n \in hits : \A m \in hits : n <= m

Return(r, libraryId) ==
    [r EXCEPT !.phase = "done", !.libraryId = libraryId, !.key = libraryIdMap(libraryId)]

\* one call of findLibraryId(itemId, ..., libraryIds, depth) up to its return
\* or its recursive call
WalkStep(anyMatch) ==
    LET cat == Catalogs[resolve.cat]
        libraryMap == LibraryIdSet(fetchLibraries)
        itemId == resolve.itemId
        depth == resolve.depth
        ParentId == cat.parent[itemId]
        r == [resolve EXCEPT !.hops = IF depth >= 1 THEN @ + 1 ELSE @]
        byParent == FirstEntry(libraryMap, ParentId)
        bySelf == FirstEntry(libraryMap, itemId)
        reverse == ReverseHit(cat, libraryMap, itemId, anyMatch)
    IN  /\ ~crashed
        /\ method = "polling"
        /\ resolve.phase = "walking"
        /\ resolve' =
              IF DepthExceeded(depth) THEN Return(resolve, Null)
              ELSE IF Fails(resolve.failing, "item", depth + 1) THEN Return(r, Null)
              ELSE IF itemId \notin cat.items THEN Return(r, Null)
              ELSE IF Truthy(ParentId) /\ byParent # 0
                   THEN Return(r, libraryMap[byParent].library.ItemId)
              ELSE IF bySelf # 0 THEN Return(r, libraryMap[bySelf].library.ItemId)
              ELSE IF ~Truthy(ParentId)
                   THEN IF reverse # 0 THEN Return(r, libraryMap[reverse].library.ItemId)
                        ELSE Return(r, Null)
              ELSE [r EXCEPT !.itemId = ParentId, !.depth = depth + 1]
        /\ UNCHANGED <<engineVars, serviceVars, perm>>

CollectionFolderLists == {<<>>, <<"cM">>, <<"zz">>}
ParentIdLists == {<<>>, <<"f1">>}

\* jellyfinWebSocket.js lines 346-382
ResolveSocket(cat, itemType, CollectionFolders, ParentIds) ==
    LET ParentId == Catalogs[cat].parent["i"]
        libraryId == IF Len(CollectionFolders) > 0 THEN CollectionFolders[1]
                     ELSE IF Len(ParentIds) > 0 THEN ParentIds[1]
                     ELSE IF Truthy(ParentId) THEN ParentId
                     ELSE Null
    IN  /\ ~crashed
        /\ method = "websocket"
        /\ resolve.phase = "idle"
        /\ resolve' = [Resolution("socket", cat, itemType, Null, NoFailure) EXCEPT
                          !.libraryId = libraryId,
                          !.key = libraryIdMap(libraryId),
                          !.clean = libraryId]
        /\ UNCHANGED <<engineVars, serviceVars, perm>>

(***************************************************************************)
(* The life cycle of the push-socket client (jellyfinWebSocket.js): its    *)
(* fields, the sockets it has created and the reconnect timers it has set. *)
(* A socket emits open, error and close in the order the ws library emits  *)
(* them; a timer expires at any moment after it was set.                   *)
(***************************************************************************)
SocketIds == 1..MaxSockets

\* constructor()
NewClient ==
    [ws |-> 0, isConnected |-> FALSE, isRunning |-> FALSE, reconnectAttempts |-> 0,
     sockets |-> [id \in SocketIds |-> "none"],
     created |-> 0, timers |-> 0, lastDelay |-> 0, failures |-> 0]

Min(a, b) == IF a <= b THEN a ELSE b

\* variant: the delay is not capped
ReconnectDelay_uncapped(reconnectAttempts) == baseReconnectDelay * 2^reconnectAttempts

\* Math.min(baseReconnectDelay * Math.pow(2, reconnectAttempts), maxReconnectDelay)
ReconnectDelay(reconnectAttempts) ==
    Min(baseReconnectDelay * 2^reconnectAttempts, maxReconnectDelay)

\* the sockets that are connecting or open
LiveSockets(c) == {id \in SocketIds : c.sockets[id] \in {"connecting", "open"}}

\* connect(): new WebSocket(fullUrl), with its four handlers
connect(c) ==
    [c EXCEPT !.ws = c.created + 1,
              !.created = c.created + 1,
              !.sockets[c.created + 1] = "connecting"]

\* attemptReconnect(): one more timer, with the delay of this attempt
attemptReconnect(c) ==
    [c EXCEPT !.timers = @ + 1,
              !.lastDelay = ReconnectDelay(c.reconnectAttempts),
              !.reconnectAttempts = @ + 1,
              !.failures = @ + 1]

WsFrame == UNCHANGED <<engineVars, resolve, perm, auth, tracking, bot, caches>>

\* the sockets that have not emitted close yet
Unclosed(c) == {id \in SocketIds : c.sockets[id] \notin {"none", "closed"}}

CanConnect == wsClient.created < MaxSockets /\ Cardinality(Unclosed(wsClient)) < MaxLive

\* start(discordClient, pendingRequests)
start ==
    /\ CanConnect
    /\ wsClient' = connect([wsClient EXCEPT !.isRunning = TRUE])
    /\ WsFrame

\* stop(): ws.close() lets the socket emit close later
stop ==
    /\ wsClient' = [wsClient EXCEPT
                       !.isRunning = FALSE,
                       !.sockets = IF wsClient.ws # 0
                                   THEN [@ EXCEPT ![wsClient.ws] =
                                            IF @ \in {"connecting", "open"} THEN "closing" ELSE @]
                                   ELSE @,
                       !.ws = 0,
                       !.isConnected = FALSE]
    /\ WsFrame

\* ws.on("open")
OnOpen(id) ==
    /\ wsClient.sockets[id] = "connecting"
    /\ wsClient' = [wsClient EXCEPT !.sockets[id] = "open",
                                    !.isConnected = TRUE,
                                    !.reconnectAttempts = 0,
                                    !.failures = 0]
    /\ WsFrame

\* ws.on("error"): logged; the ws library emits close after it
OnError(id) ==
    /\ wsClient.sockets[id] \in {"connecting", "open"}
    /\ wsClient' = [wsClient EXCEPT !.sockets[id] = "errored"]
    /\ WsFrame

\* variant: a closing socket sets a reconnect timer whether or not the client runs
OnClose_alwaysReconnects(id) ==
    LET closed == [wsClient EXCEPT !.sockets[id] = "closed", !.isConnected = FALSE]
    IN  /\ wsClient.sockets[id] \in {"connecting", "open", "errored", "closing"}
        /\ wsClient.timers < MaxTimers
        /\ wsClient' = attemptReconnect(closed)
        /\ WsFrame

\* ws.on("close")
OnClose(id) ==
    LET closed == [wsClient EXCEPT !.sockets[id] = "closed", !.isConnected = FALSE]
    IN  /\ wsClient.sockets[id] \in {"connecting", "open", "errored", "closing"}
        /\ wsClient.isRunning => wsClient.timers < MaxTimers
        /\ wsClient' = IF wsClient.isRunning THEN attemptReconnect(closed) ELSE closed
        /\ WsFrame

\* the setTimeout callback of attemptReconnect
ReconnectTimerFires ==
    /\ wsClient.timers > 0
    /\ wsClient.isRunning => CanConnect
    /\ wsClient' = LET expired == [wsClient EXCEPT !.timers = @ - 1]
                   IN  IF wsClient.isRunning THEN connect(expired) ELSE expired
    /\ WsFrame

(***************************************************************************)
(* Registration (utils/auth.js).  A register request reads the USERS list, *)
(* suspends while bcrypt salts and hashes the password, and then appends   *)
(* the account to the list with saveUser.                                  *)
(***************************************************************************)
RegisterIds == 1..MaxRegistrations
Usernames == {"", "admin", "guest"}
Passwords == {"", "secret"}

\* no config file yet and no request received
NoAccounts ==
    [USERS |-> <<>>, requests |-> [id \in RegisterIds |-> [username |-> "", status |-> "none"]]]

\* getUsers()
getUsers(a) == a.USERS

\* saveUser(username, passwordHash): config.USERS.push(newUser)
saveUser(a, username) == [a EXCEPT !.USERS = Append(@, username)]

AuthFrame == UNCHANGED <<engineVars, resolve, perm, wsClient, tracking, bot, caches>>

\* register(req, res), to the first await
register(id, username, password) ==
    /\ auth.requests[id].status = "none"
    /\ auth' = [auth EXCEPT !.requests[id] =
                   [username |-> username,
                    status |-> IF username = "" \/ password = "" THEN "400"
                               ELSE IF Len(getUsers(auth)) > 0 THEN "403"
                               ELSE "hashing"]]
    /\ AuthFrame

\* register(req, res), after bcrypt.hash: saved is whether writeFileSync succeeded
registerAfterHash(id, saved) ==
    /\ auth.requests[id].status = "hashing"
    /\ auth' = IF saved
               THEN [saveUser(auth, auth.requests[id].username) EXCEPT !.requests[id].status = "200"]
               ELSE [auth EXCEPT !.requests[id].status = "500"]
    /\ AuthFrame

(***************************************************************************)
(* The requesters of pendingRequests and their availability DMs.  A        *)
(* request command adds the user to the Set stored under the key; a        *)
(* notification reads and deletes the Set before its first await, then     *)
(* sends the channel message and one DM per requester, each after an await.*)
(***************************************************************************)
DiscordUsers == {"u1", "u2"}
MediaTypes == {"movie", "tv"}
TrackedKeys == {"t1-movie", "t1-tv"}
NotifySlots == 1..MaxNotifying

\* what a notification carries of the event: its type and its tmdb id
NotifiedEvents ==
    [ItemType : {"Movie", "Series", "Episode"}, Provider_tmdb : {"t1", ""}]

Idle == [phase |-> "idle", key |-> "", usersToNotify |-> <<>>, entry |-> 0]

\* new Map(), nobody asked, nothing sent; entry numbers the Sets ever stored
NoTracking ==
    [pendingRequests |-> [k \in TrackedKeys |-> <<>>],
     entryOf |-> [k \in TrackedKeys |-> 0],
     entries |-> 0,
     asked |-> [k \in TrackedKeys |-> [u \in DiscordUsers |-> 0]],
     dmed |-> [k \in TrackedKeys |-> [u \in DiscordUsers |-> 0]],
     running |-> [slot \in NotifySlots |-> Idle]]

Contains(seq, x) == \E i \in 1..Len(seq) : seq[i] = x

\* pendingRequests.has(key)
HasEntry(t, key) == key \in TrackedKeys /\ t.pendingRequests[key] # <<>>

\* the key the notification looks up, "" when it looks nothing up
LookupKey(t, data) ==
    IF NOTIFY_ON_AVAILABLE /\ Truthy(data.Provider_tmdb) /\ HasEntry(t, RequestKey(data))
    THEN RequestKey(data)
    ELSE ""

\* variant: the Set is read and left in the Map
DeleteEntry_keeping(t, key) == t

\* pendingRequests.delete(key)
DeleteEntry(t, key) ==
    [t EXCEPT !.pendingRequests[key] = <<>>, !.entryOf[key] = 0]

TrackingFrame == UNCHANGED <<engineVars, resolve, perm, wsClient, auth, bot, caches>>

\* the request commands of app.js: the user is added to the Set of the key
TrackRequest(user, mediaType) ==
    LET key == "t1-" \o mediaType
        fresh == ~HasEntry(tracking, key)
        isNew == ~Contains(tracking.pendingRequests[key], user)
    IN  /\ isNew => tracking.asked[key][user] < MaxAsked
        /\ fresh => tracking.entries < MaxEntries
        /\ tracking' =
              [tracking EXCEPT
                  !.pendingRequests[key] = IF isNew THEN Append(@, user) ELSE @,
                  !.entryOf[key] = IF fresh THEN tracking.entries + 1 ELSE @,
                  !.entries = IF fresh THEN @ + 1 ELSE @,
                  !.asked[key][user] = IF isNew THEN @ + 1 ELSE @]
        /\ TrackingFrame

\* processAndSendNotification, to its first await
NotifyBegins(slot, data) ==
    LET key == LookupKey(tracking, data)
        taken == IF key = "" THEN tracking ELSE DeleteEntry(tracking, key)
    IN  /\ tracking.running[slot].phase = "idle"
        /\ tracking' =
              [taken EXCEPT !.running[slot] =
                  [phase |-> "sending",
                   key |-> key,
                   usersToNotify |-> IF key = "" THEN <<>> ELSE tracking.pendingRequests[key],
                   entry |-> IF key = "" THEN 0 ELSE tracking.entryOf[key]]]
        /\ TrackingFrame

\* channels.fetch and channel.send: a rejection ends the function before the DMs
ChannelSendSettles(slot, outcome) ==
    /\ tracking.running[slot].phase = "sending"
    /\ tracking' =
          [tracking EXCEPT !.running[slot] =
              IF outcome = "ok" /\ tracking.running[slot].usersToNotify # <<>>
              THEN [@ EXCEPT !.phase = "dms"]
              ELSE Idle]
    /\ TrackingFrame

\* one turn of the loop over usersToNotify: users.fetch and user.send, errors caught
DmSettles(slot, outcome) ==
    LET r == tracking.running[slot]
        userId == Head(r.usersToNotify)
        rest == Tail(r.usersToNotify)
    IN  /\ r.phase = "dms"
        /\ tracking' =
              [tracking EXCEPT
                  !.dmed[r.key][userId] = IF outcome = "ok" THEN @ + 1 ELSE @,
                  !.running[slot] = IF rest = <<>> THEN Idle
                                    ELSE [r EXCEPT !.usersToNotify = rest]]
        /\ TrackingFrame

(***************************************************************************)
(* The life cycle of the Discord client (app.js): startBot creates a       *)
(* client and returns a promise that settles when the login does; stop-bot *)
(* and the restart of save-config await client.destroy() before they clear *)
(* isBotRunning and discordClient.                                         *)
(***************************************************************************)
BotClientIds == 1..MaxBotClients

\* the module-level state at boot; clients, created, awaiting and booted
\* follow the clients created and the handlers suspended in an await
NoBot ==
    [isBotRunning |-> FALSE, discordClient |-> 0,
     clients |-> [id \in BotClientIds |-> "none"],
     created |-> 0,
     awaiting |-> [handler \in {"stop", "save"} |-> 0],
     booted |-> FALSE, exited |-> FALSE]

\* the clients that are logging in or logged in
ActiveClients(b) == {id \in BotClientIds : b.clients[id] \in {"loggingIn", "ready"}}

\* startBot(), to the promise it returns
startBot(b, configLoaded) ==
    IF (b.isBotRunning /\ b.discordClient # 0) \/ ~configLoaded
    THEN b
    ELSE [b EXCEPT !.created = @ + 1,
                   !.clients[b.created + 1] = "loggingIn",
                   !.discordClient = b.created + 1]

\* discordClient.destroy()
destroy(b) == [b EXCEPT !.clients[b.discordClient] = "destroyed"]

BotFrame == UNCHANGED <<engineVars, resolve, perm, wsClient, auth, tracking, caches>>

\* server.on("listening"): the auto-start at boot, before any request is served
AutoStart(configLoaded) ==
    /\ ~bot.exited /\ ~bot.booted
    /\ bot.created < MaxBotClients
    /\ bot' = IF ~bot.isBotRunning /\ configLoaded
              THEN [startBot(bot, configLoaded) EXCEPT !.booted = TRUE]
              ELSE [bot EXCEPT !.booted = TRUE]
    /\ BotFrame

\* POST /api/start-bot
StartBotRequest(configLoaded) ==
    /\ ~bot.exited /\ bot.booted
    /\ ~bot.isBotRunning
    /\ bot.created < MaxBotClients
    /\ bot' = startBot(bot, configLoaded)
    /\ BotFrame

\* client.once("clientReady")
ClientReady(id) ==
    /\ ~bot.exited
    /\ bot.clients[id] = "loggingIn"
    /\ bot' = [bot EXCEPT !.clients[id] = "ready", !.isBotRunning = TRUE]
    /\ BotFrame

\* client.login(...).catch
LoginFails(id) ==
    /\ ~bot.exited
    /\ bot.clients[id] = "loggingIn"
    /\ bot' = [bot EXCEPT !.clients[id] = "failed",
                          !.isBotRunning = FALSE,
                          !.discordClient = 0]
    /\ BotFrame

\* POST /api/stop-bot, to its await
StopBotRequest ==
    /\ ~bot.exited /\ bot.booted
    /\ bot.isBotRunning /\ bot.discordClient # 0
    /\ bot.awaiting["stop"] < MaxAwaiting
    /\ bot' = [destroy(bot) EXCEPT !.awaiting["stop"] = @ + 1]
    /\ BotFrame

\* POST /api/stop-bot, after the await
StopBotResumes ==
    /\ ~bot.exited
    /\ bot.awaiting["stop"] > 0
    /\ bot' = [bot EXCEPT !.awaiting["stop"] = @ - 1,
                          !.isBotRunning = FALSE,
                          !.discordClient = 0]
    /\ BotFrame

\* POST /api/save-config with a changed token or guild, to its await;
\* discordClient.destroy() on null throws in the async handler
SaveConfigRestarts ==
    /\ ~bot.exited /\ bot.booted
    /\ bot.isBotRunning
    /\ bot.awaiting["save"] < MaxAwaiting
    /\ bot' = IF bot.discordClient = 0
              THEN [bot EXCEPT !.exited = TRUE]
              ELSE [destroy(bot) EXCEPT !.awaiting["save"] = @ + 1]
    /\ BotFrame

\* POST /api/save-config, after the await: the bot is started again
SaveConfigResumes(configLoaded) ==
    /\ ~bot.exited
    /\ bot.awaiting["save"] > 0
    /\ bot.created < MaxBotClients
    /\ bot' = startBot([bot EXCEPT !.awaiting["save"] = @ - 1,
                                   !.isBotRunning = FALSE,
                                   !.discordClient = 0], configLoaded)
    /\ BotFrame

(***************************************************************************)
(* The caches of the Jellyseerr client: root folders, tags, servers and    *)
(* quality profiles.  Each fetch asks Jellyseerr for its Radarr and its    *)
(* Sonarr servers and, but for the servers list, for the details of each.  *)
(* A service answers "fail" (the list request failed), "detailsFail" (the  *)
(* details request failed), "none" (no server) or "ok".                    *)
(***************************************************************************)
CacheNames == {"rootFolders", "tags", "servers", "qualityProfiles"}
ServiceAnswers == {"fail", "detailsFail", "none", "ok"}

\* let xCache = null; let xCacheTime = 0
NoCaches ==
    [now |-> 0,
     store |-> [name \in CacheNames |-> [cached |-> FALSE, value |-> <<>>, time |-> 0]],
     returned |-> <<>>]

\* what one service contributes to results
FromService(type, fetchDetails, answer) ==
    IF answer = "ok" \/ (answer = "detailsFail" /\ ~fetchDetails) THEN <<type>> ELSE <<>>

\* fetchFromServers: every failure is caught and logged, results is returned
fetchFromServers(fetchDetails, radarr, sonarr) ==
    FromService("radarr", fetchDetails, radarr) \o FromService("sonarr", fetchDetails, sonarr)

CacheFrame == UNCHANGED <<engineVars, resolve, perm, wsClient, auth, tracking, bot>>

\* the body the four fetch functions share
fetchCached(name, fetchDetails, radarr, sonarr) ==
    LET c == caches.store[name]
        results == fetchFromServers(fetchDetails, radarr, sonarr)
    IN  /\ caches' =
              IF c.cached /\ caches.now - c.time < CACHE_TTL
              THEN [caches EXCEPT !.returned = c.value]
              ELSE [caches EXCEPT
                       !.store[name] = [cached |-> TRUE, value |-> results, time |-> caches.now],
                       !.returned = results]
        /\ CacheFrame

fetchRootFolders(radarr, sonarr) == fetchCached("rootFolders", TRUE, radarr, sonarr)

fetchTags(radarr, sonarr) == fetchCached("tags", TRUE, radarr, sonarr)

fetchServers(radarr, sonarr) == fetchCached("servers", FALSE, radarr, sonarr)

fetchQualityProfiles(radarr, sonarr) == fetchCached("qualityProfiles", TRUE, radarr, sonarr)

\* Date.now() advances
CacheTick ==
    /\ caches.now < MaxCacheTime
    /\ caches' = [caches EXCEPT !.now = @ + 1]
    /\ CacheFrame

(***************************************************************************)
(* The clock.                                                              *)
(***************************************************************************)
Tick ==
    /\ ~crashed
    /\ UNCHANGED <<configVars, serviceVars, botVars, resolve, perm, inFlight>>
    /\ now < MaxTime
    /\ \A k \in SeriesIds : ~TimerDue(debouncedSenders[k], now)
    /\ \A timer \in cleanupTimers : timer.deadline > now
    /\ now' = now + 1
    /\ UNCHANGED <<crashed, method, notificationLibraries, webhookVars, pendingRequests, numSent,
                   lastSent, pollerVars, socketVars, observerVars>>
    /\ skipReason' = ""

(***************************************************************************)
(* The Jellyseerr permission system (lib/permissions.js) and the suite     *)
(* that exercises it.                                                      *)
(***************************************************************************)
Permission ==
    [NONE |-> 0, ADMIN |-> 2, MANAGE_SETTINGS |-> 4, MANAGE_USERS |-> 8,
     MANAGE_REQUESTS |-> 16, REQUEST |-> 32, VOTE |-> 64, AUTO_APPROVE |-> 128,
     AUTO_APPROVE_MOVIE |-> 256, AUTO_APPROVE_TV |-> 512, REQUEST_4K |-> 1024,
     REQUEST_4K_MOVIE |-> 2048, REQUEST_4K_TV |-> 4096, REQUEST_ADVANCED |-> 8192,
     REQUEST_VIEW |-> 16384, AUTO_APPROVE_4K |-> 32768,
     AUTO_APPROVE_4K_MOVIE |-> 65536, AUTO_APPROVE_4K_TV |-> 131072,
     REQUEST_MOVIE |-> 262144, REQUEST_TV |-> 524288, MANAGE_ISSUES |-> 1048576,
     VIEW_ISSUES |-> 2097152, CREATE_ISSUES |-> 4194304, AUTO_REQUEST |-> 8388608,
     AUTO_REQUEST_MOVIE |-> 16777216, AUTO_REQUEST_TV |-> 33554432,
     RECENT_VIEW |-> 67108864, WATCHLIST_VIEW |-> 134217728,
     MANAGE_BLACKLIST |-> 268435456, VIEW_BLACKLIST |-> 1073741824]

\* Object.values(Permission)
PermissionValues == {Permission[name] : name \in DOMAIN Permission}

\* a JavaScript number that is an Int32; ToInt32 leaves such a number as it is
Num(n) == [typeof |-> "number", isNaN |-> FALSE, value |-> n]

\* the values of the edge cases that are no permission value at all
NonNumbers ==
    {[typeof |-> "string", isNaN |-> TRUE, value |-> 0],
     [typeof |-> "object", isNaN |-> TRUE, value |-> 0],
     [typeof |-> "undefined", isNaN |-> TRUE, value |-> 0],
     [typeof |-> "number", isNaN |-> TRUE, value |-> 0]}

\* typeof userPermissions !== 'number' || isNaN(userPermissions)
IsInvalid(userPermissions) ==
    userPermissions.typeof # "number" \/ userPermissions.isNaN

\* a & b of two Int32 operands, in two's complement
RECURSIVE BitAnd(_, _)
BitAnd(a, b) ==
    IF a = 0 \/ b = 0 THEN 0
    ELSE IF a = -1 THEN b
    ELSE IF b = -1 THEN a
    ELSE (a % 2) * (b % 2) + 2 * BitAnd(a \div 2, b \div 2)

\* acc | val over a set of distinct permission constants
RECURSIVE BitOr(_)
BitOr(values) ==
    IF values = {} THEN 0
    ELSE LET val == CHOOSE v \in values : TRUE
         IN  val + BitOr(values \ {val})

\* the permissions argument: one constant or an array of constants
One(permission) == [isArray |-> FALSE, list |-> <<permission>>]

Many(permissions) == [isArray |-> TRUE, list |-> permissions]

DefaultOptions == [type |-> "and"]

hasPermission(permissions, userPermissions, options) ==
    IF IsInvalid(userPermissions) THEN FALSE
    ELSE IF ~permissions.isArray /\ permissions.list[1] = Permission.NONE THEN TRUE
    ELSE IF BitAnd(userPermissions.value, Permission.ADMIN) # 0 THEN TRUE
    ELSE IF permissions.isArray
         THEN CASE options.type = "and" ->
                       \A i \in DOMAIN permissions.list :
                           BitAnd(userPermissions.value, permissions.list[i]) # 0
                [] options.type = "or" ->
                       \E i \in DOMAIN permissions.list :
                           BitAnd(userPermissions.value, permissions.list[i]) # 0
                [] OTHER -> FALSE
         ELSE BitAnd(userPermissions.value, permissions.list[1]) # 0

managementPermissions_withoutBlacklist ==
    <<Permission.MANAGE_SETTINGS, Permission.MANAGE_USERS, Permission.MANAGE_REQUESTS,
      Permission.MANAGE_ISSUES>>

managementPermissions ==
    <<Permission.MANAGE_SETTINGS, Permission.MANAGE_USERS, Permission.MANAGE_REQUESTS,
      Permission.MANAGE_ISSUES, Permission.MANAGE_BLACKLIST>>

autoApprovePermissions ==
    <<Permission.AUTO_APPROVE, Permission.AUTO_APPROVE_MOVIE, Permission.AUTO_APPROVE_TV,
      Permission.AUTO_APPROVE_4K, Permission.AUTO_APPROVE_4K_MOVIE,
      Permission.AUTO_APPROVE_4K_TV>>

getPermissionType(userPermissions) ==
    IF IsInvalid(userPermissions) THEN "user"
    ELSE IF hasPermission(One(Permission.ADMIN), userPermissions, DefaultOptions)
         THEN "admin"
    ELSE IF hasPermission(Many(managementPermissions), userPermissions, [type |-> "or"])
         THEN "manager"
    ELSE IF hasPermission(Many(autoApprovePermissions), userPermissions, [type |-> "or"])
         THEN "auto-approve"
    ELSE "user"

\* the binary digits of |n|, for n < 0
RECURSIVE Magnitude2(_)
Magnitude2(n) ==
    IF n = -1 THEN <<"1">>
    ELSE Append(Magnitude2((n + 1) \div 2), IF n % 2 = 0 THEN "0" ELSE "1")

\* userPermissions.toString(2)
RECURSIVE toString2(_)
toString2(n) ==
    IF n < 0 THEN <<"-">> \o Magnitude2(n)
    ELSE IF n < 2 THEN <<IF n = 0 THEN "0" ELSE "1">>
    ELSE Append(toString2(n \div 2), IF n % 2 = 0 THEN "0" ELSE "1")

Can(permission, userPermissions) ==
    hasPermission(One(permission), userPermissions, DefaultOptions)

Capabilities(userPermissions) ==
    [isAdmin |-> Can(Permission.ADMIN, userPermissions),
     canManageSettings |-> Can(Permission.MANAGE_SETTINGS, userPermissions),
     canManageUsers |-> Can(Permission.MANAGE_USERS, userPermissions),
     canManageRequests |-> Can(Permission.MANAGE_REQUESTS, userPermissions),
     canManageIssues |-> Can(Permission.MANAGE_ISSUES, userPermissions),
     canManageBlacklist |-> Can(Permission.MANAGE_BLACKLIST, userPermissions),
     canRequest |-> Can(Permission.REQUEST, userPermissions),
     canRequestMovies |-> Can(Permission.REQUEST_MOVIE, userPermissions),
     canRequestTv |-> Can(Permission.REQUEST_TV, userPermissions),
     canRequest4K |-> Can(Permission.REQUEST_4K, userPermissions),
     canRequest4KMovies |-> Can(Permission.REQUEST_4K_MOVIE, userPermissions),
     canRequest4KTv |-> Can(Permission.REQUEST_4K_TV, userPermissions),
     canRequestAdvanced |-> Can(Permission.REQUEST_ADVANCED, userPermissions),
     canViewRequests |-> Can(Permission.REQUEST_VIEW, userPermissions),
     hasAutoApprove |-> Can(Permission.AUTO_APPROVE, userPermissions),
     hasAutoApproveMovies |-> Can(Permission.AUTO_APPROVE_MOVIE, userPermissions),
     hasAutoApproveTv |-> Can(Permission.AUTO_APPROVE_TV, userPermissions),
     hasAutoApprove4K |-> Can(Permission.AUTO_APPROVE_4K, userPermissions),
     hasAutoApprove4KMovies |-> Can(Permission.AUTO_APPROVE_4K_MOVIE, userPermissions),
     hasAutoApprove4KTv |-> Can(Permission.AUTO_APPROVE_4K_TV, userPermissions),
     canVote |-> Can(Permission.VOTE, userPermissions),
     canViewIssues |-> Can(Permission.VIEW_ISSUES, userPermissions),
     canCreateIssues |-> Can(Permission.CREATE_ISSUES, userPermissions),
     hasAutoRequest |-> Can(Permission.AUTO_REQUEST, userPermissions),
     hasAutoRequestMovies |-> Can(Permission.AUTO_REQUEST_MOVIE, userPermissions),
     hasAutoRequestTv |-> Can(Permission.AUTO_REQUEST_TV, userPermissions),
     canViewRecent |-> Can(Permission.RECENT_VIEW, userPermissions),
     canViewWatchlist |-> Can(Permission.WATCHLIST_VIEW, userPermissions),
     canViewBlacklist |-> Can(Permission.VIEW_BLACKLIST, userPermissions)]

analyzePermissions(userPermissions) ==
    IF IsInvalid(userPermissions)
    THEN [isValid |-> FALSE, permissionType |-> "user", permissions |-> 0,
          permissionsBinary |-> <<>>, capabilities |-> <<>>]
    ELSE [isValid |-> TRUE,
          permissionType |-> getPermissionType(userPermissions),
          permissions |-> userPermissions.value,
          permissionsBinary |-> toString2(userPermissions.value),
          capabilities |-> Capabilities(userPermissions)]

\* the permission values of the suite: every union of at most MaxBits
\* permission constants, the combined cases, and the edge cases
RECURSIVE Unions(_)
Unions(bits) ==
    IF bits = 0 THEN {0}
    ELSE {IF BitAnd(n, permission) = 0 THEN BitOr({n, permission}) ELSE n :
              n \in Unions(bits - 1), permission \in PermissionValues}

testCases ==
    {Permission.ADMIN + Permission.REQUEST + Permission.AUTO_APPROVE,
     Permission.MANAGE_REQUESTS + Permission.AUTO_APPROVE_MOVIE,
     Permission.ADMIN + Permission.REQUEST + Permission.AUTO_APPROVE_MOVIE,
     BitOr(PermissionValues)}

edgeCases == {-1, -2, -3, -2147483647 - 1, 999999999}

UserPermissions ==
    {Num(n) : n \in Unions(MaxBits) \cup testCases \cup edgeCases} \cup NonNumbers

\* the arrays of permissions handed to hasPermission
PermissionLists ==
    {<<Permission.ADMIN, Permission.REQUEST>>,
     <<Permission.ADMIN, Permission.MANAGE_REQUESTS>>,
     <<Permission.MANAGE_REQUESTS, Permission.MANAGE_USERS>>,
     managementPermissions, autoApprovePermissions}

CheckTypes == {"and", "or", "xor"}

Checks ==
    {One(permission) : permission \in PermissionValues}
        \cup {Many(permissions) : permissions \in PermissionLists}

\* a permission value handed to the suite
Input(userPermissions) == [phase |-> "input", userPermissions |-> userPermissions]

\* getPermissionType and analyzePermissions applied to the value
testEdgeCases ==
    /\ perm.phase = "input"
    /\ perm' = [phase |-> "classified",
                userPermissions |-> perm.userPermissions,
                actualType |-> getPermissionType(perm.userPermissions),
                analysis |-> analyzePermissions(perm.userPermissions)]
    /\ UNCHANGED <<engineVars, serviceVars, resolve>>

\* hasPermission applied to the value
testPermissionChecks(permission, type) ==
    /\ perm.phase = "input"
    /\ perm' = [phase |-> "checked",
                userPermissions |-> perm.userPermissions,
                permission |-> permission,
                type |-> type,
                result |-> hasPermission(permission, perm.userPermissions, [type |-> type])]
    /\ UNCHANGED <<engineVars, serviceVars, resolve>>

\* no permission value under examination
NoPerm == [phase |-> "idle"]

InitWith(t, disabled, excluded, permission) ==
    /\ now = t
    /\ crashed = FALSE
    /\ method \in {"webhook", "polling", "websocket"}
    /\ notificationLibraries \in {EmptyMapping, ChannelMapping}
    /\ debouncedSenders = [k \in SeriesIds \cup {""} |-> NoSender]
    /\ sentNotifications = [k \in SeriesIds |-> NoSent]
    /\ cleanupTimers = {}
    /\ pendingRequests = {"t1-tv"}
    /\ numSent = 0
    /\ lastSent = NoNotification
    /\ skipReason = ""
    /\ pollerSeenItems = [i \in ItemIds |-> 0]
    /\ pollRuns = [r \in Runs |-> NoRun]
    /\ socketSeenItems = [i \in ItemIds |-> 0]
    /\ socketRuns = [r \in Runs |-> NoRun]
    /\ burstFirst = [k \in SeriesIds |-> 0]
    /\ burstNotifs = [k \in SeriesIds |-> 0]
    /\ seriesFiredAt = [k \in SeriesIds |-> 0]
    /\ handoffs = [p \in {"poller", "socket"} |-> [i \in ItemIds |-> <<>>]]
    /\ notifyDisabled = disabled
    /\ excludedLibraries = excluded
    /\ perm = permission
    /\ inFlight = {}
    /\ wsClient = NewClient
    /\ caches = NoCaches
    /\ bot = NoBot
    /\ tracking = NoTracking
    /\ auth = NoAccounts
    /\ discordClient = 1
    /\ clientsCreated = 1
    /\ resolve = NoResolve

InitAt(t, disabled, excluded) == InitWith(t, disabled, excluded, NoPerm)

Init == InitAt(1, {}, {})

WebhookStep ==
    \/ \E data \in WebhookPayloads, libraryId \in LibraryIds, outcome \in {"ok", "fail"} :
          handleJellyfinWebhook(data, libraryId, outcome)
    \/ \E k \in SeriesIds, outcome \in {"ok", "fail"} : DebouncedSenderFires(k, outcome)
    \/ \E timer \in cleanupTimers : CleanupTimerFires(timer)

PollerStep ==
    \/ \E run \in Runs : StartPoll(run)
    \/ \E run \in Runs, libraryId \in LibraryIds, outcome \in {"ok", "fail"} :
          PollItem(run, libraryId, outcome)

SocketStep ==
    \/ \E run \in Runs : handleLibraryChanged(run)
    \/ \E run \in Runs, detailsOk \in BOOLEAN, libraryId \in LibraryIds,
          outcome \in {"ok", "fail"} :
          processNewItem(run, detailsOk, libraryId, outcome)

Next == WebhookStep \/ PollerStep \/ SocketStep \/ Tick

\* every notification method
Spec == Init /\ [][Next]_vars

\* the webhook producer alone
NextWebhook == WebhookStep \/ Tick

InitWebhook == Init /\ method = "webhook"

SpecWebhook == InitWebhook /\ [][NextWebhook]_vars

\* the polling and the push-socket producer
NextProducers == PollerStep \/ SocketStep \/ Tick

InitProducers == Init /\ method \in {"polling", "websocket"}

SpecProducers == InitProducers /\ [][NextProducers]_vars

\* the webhook handler and the debounced callback; within ShortHorizon ticks
\* no cleanup timer comes due
HandlerStep ==
    \/ \E data \in WebhookPayloads, libraryId \in LibraryIds, outcome \in {"ok", "fail"} :
          handleJellyfinWebhook(data, libraryId, outcome)
    \/ \E k \in SeriesIds, outcome \in {"ok", "fail"} : DebouncedSenderFires(k, outcome)

InitShort == InitAt(MaxTime - ShortHorizon, {}, {})

BotStep == StopBot \/ StartBot

NextBot == HandlerStep \/ BotStep \/ Tick

InitBot == InitShort /\ method = "webhook"

\* the webhook producer while the bot is stopped and started again
SpecBot == InitBot /\ [][NextBot]_vars

ResolveStep ==
    \/ \E cat \in CatalogNames, itemType \in ItemTypes, hint \in Hints, failing \in Failures :
          ResolveWebhook(cat, itemType, hint, failing)
    \/ \E cat \in CatalogNames, itemType \in ItemTypes, failing \in Failures :
          ResolvePoller(cat, itemType, failing)
    \/ \E anyMatch \in BOOLEAN : WalkStep(anyMatch)
    \/ \E cat \in CatalogNames, itemType \in ItemTypes,
          CollectionFolders \in CollectionFolderLists, ParentIds \in ParentIdLists :
          ResolveSocket(cat, itemType, CollectionFolders, ParentIds)

NextResolve == ResolveStep

\* library resolution of one item, for every producer, catalog and failure
SpecResolve == Init /\ [][NextResolve]_vars

\* each of the four JELLYFIN_NOTIFY_* toggles set to "false" on its own
ToggleSets == {{"Movie"}, {"Series"}, {"Season"}, {"Episode"}}

InitToggles == \E disabled \in ToggleSets : InitAt(MaxTime - ShortHorizon, disabled, {})

NextShort == HandlerStep \/ PollerStep \/ SocketStep \/ Tick

\* the three producers over ShortHorizon ticks
SpecShort == InitShort /\ [][NextShort]_vars

\* the three producers with one item type disabled
SpecToggles == InitToggles /\ [][NextShort]_vars

\* every request of the walk is answered or times out after 5 s, so a walk
\* in progress takes its next step
FairResolve == SpecResolve /\ WF_vars(\E anyMatch \in BOOLEAN : WalkStep(anyMatch))

\* the libraries ticked in the dashboard's exclusion list
ExclusionLists == {{"libA"}, {"libX"}}

InitExclusion ==
    \E excluded \in ExclusionLists :
        InitAt(MaxTime - ShortHorizon, {}, excluded) /\ method = "webhook"

NextExclusion == HandlerStep \/ Tick

\* the webhook producer with a library excluded in the configuration
SpecExclusion == InitExclusion /\ [][NextExclusion]_vars

MalformedStep ==
    \E data \in MalformedPayloads, libraryId \in LibraryIds, outcome \in {"ok", "fail"} :
        handleJellyfinWebhook(data, libraryId, outcome)

NextIngest == HandlerStep \/ MalformedStep \/ Tick

\* the webhook producer with well-formed and malformed payloads
SpecIngest == InitBot /\ [][NextIngest]_vars

InitConcurrent ==
    /\ InitShort
    /\ method = "webhook"
    /\ notificationLibraries = EmptyMapping

ReceiveStep ==
    \E slot \in 1..MaxInFlight, data \in ConcurrentPayloads : Receive(slot, data)

ResumeStep ==
    \E request \in inFlight, libraryId \in LibraryIds, outcome \in {"ok", "fail"} :
        Resume(request, libraryId, outcome)

FireStep ==
    \E k \in SeriesIds, outcome \in {"ok", "fail"} : DebouncedSenderFires(k, outcome)

NextConcurrent == ReceiveStep \/ ResumeStep \/ FireStep \/ Tick

\* webhook requests of one series that overtake each other while suspended
SpecConcurrent == InitConcurrent /\ [][NextConcurrent]_vars

\* a series whose seasons and episodes lie in library libA (channel chA) and
\* whose series folder lies in libB (no channel of its own)
LibraryOf(data) ==
    IF data.ItemType \in {"Season", "Episode"} /\ Truthy(data.SeriesId) THEN "libA"
    ELSE IF data.ItemType = "Series" THEN "libB"
    ELSE Null

InitRouting ==
    /\ InitShort
    /\ method = "webhook"
    /\ notificationLibraries = ChannelMapping

RoutedStep ==
    \E data \in WebhookPayloads, outcome \in Outcomes :
        handleJellyfinWebhook(data, LibraryOf(data), outcome)

NextRouting == RoutedStep \/ FireStep \/ Tick

\* webhook events whose library, and so whose channel, follows from the item
SpecRouting == InitRouting /\ [][NextRouting]_vars

InitPermissions ==
    \E userPermissions \in UserPermissions :
        /\ InitWith(1, {}, {}, Input(userPermissions))
        /\ method = "webhook"
        /\ notificationLibraries = EmptyMapping

PermissionCheck ==
    \E permission \in Checks, type \in CheckTypes : testPermissionChecks(permission, type)

NextPermissions == testEdgeCases \/ PermissionCheck

\* the permission suite applied to one permission value
SpecPermissions == InitPermissions /\ [][NextPermissions]_vars

InitServices ==
    /\ Init
    /\ method = "websocket"
    /\ notificationLibraries = EmptyMapping

SocketEvent == \E id \in SocketIds : OnOpen(id) \/ OnError(id) \/ OnClose(id)

NextSocket == start \/ stop \/ SocketEvent \/ ReconnectTimerFires

\* the push-socket client under every order of calls, socket events and timers
SpecSocket == InitServices /\ [][NextSocket]_vars

RegisterStep ==
    \E id \in RegisterIds, username \in Usernames, password \in Passwords :
        register(id, username, password)

AfterHashStep == \E id \in RegisterIds, saved \in BOOLEAN : registerAfterHash(id, saved)

NextAuth == RegisterStep \/ AfterHashStep

\* register requests in every order and interleaving
SpecAuth == InitServices /\ [][NextAuth]_vars

TrackStep == \E user \in DiscordUsers, mediaType \in MediaTypes : TrackRequest(user, mediaType)

NotifyStep == \E slot \in NotifySlots, data \in NotifiedEvents : NotifyBegins(slot, data)

SendStep == \E slot \in NotifySlots, outcome \in Outcomes : ChannelSendSettles(slot, outcome)

DmStep == \E slot \in NotifySlots, outcome \in Outcomes : DmSettles(slot, outcome)

NextTracking == TrackStep \/ NotifyStep \/ SendStep \/ DmStep

\* request commands and notifications in every order and interleaving
SpecTracking == InitServices /\ [][NextTracking]_vars

BotRequest ==
    \/ \E configLoaded \in BOOLEAN : AutoStart(configLoaded)
    \/ \E configLoaded \in BOOLEAN : StartBotRequest(configLoaded)
    \/ StopBotRequest
    \/ SaveConfigRestarts

BotResumes ==
    \/ \E id \in BotClientIds : ClientReady(id)
    \/ \E id \in BotClientIds : LoginFails(id)
    \/ StopBotResumes
    \/ \E configLoaded \in BOOLEAN : SaveConfigResumes(configLoaded)

NextLifecycle == BotRequest \/ BotResumes

\* the requests that start, stop and restart the bot, in every interleaving
SpecLifecycle == InitServices /\ [][NextLifecycle]_vars

FetchStep ==
    \E radarr \in ServiceAnswers, sonarr \in ServiceAnswers :
        \/ fetchRootFolders(radarr, sonarr)
        \/ fetchTags(radarr, sonarr)
        \/ fetchServers(radarr, sonarr)
        \/ fetchQualityProfiles(radarr, sonarr)

NextCaches == FetchStep \/ CacheTick

\* fetches of the four lists while Jellyseerr answers or fails
SpecCaches == InitServices /\ [][NextCaches]_vars

(***************************************************************************)
(* Properties.                                                             *)
(***************************************************************************)
\* a producer handles one event whose library detection came back with libraryId
EventStep(libraryId) ==
    \/ \E data \in WebhookPayloads, outcome \in Outcomes :
          handleJellyfinWebhook(data, libraryId, outcome)
    \/ \E run \in Runs, outcome \in Outcomes : PollItem(run, libraryId, outcome)
    \/ \E run \in Runs, outcome \in Outcomes : processNewItem(run, TRUE, libraryId, outcome)

\* the step dropped its event because of the library routing
Suppressed == skipReason' \in {"library", "nolibrary", "blank"}

\* the step dropped its event before the routing mattered
DroppedEarly == skipReason' \in {"seen", "level", "details", "invalid", "type"}

\* the webhook handler handles data in this step
Handles(data) ==
    \E libraryId \in LibraryIds, outcome \in Outcomes :
        handleJellyfinWebhook(data, libraryId, outcome)

\* the webhook handler handles data of library libraryId in this step
HandlesFrom(data, libraryId) ==
    \E outcome \in Outcomes : handleJellyfinWebhook(data, libraryId, outcome)

\* the debounced callback of SeriesId runs in this step
Fires(SeriesId) ==
    \E outcome \in Outcomes : DebouncedSenderFires(SeriesId, outcome)

\* C1: for every SeriesId, the events that arrive within one debounce window
\* of the first one lead to one notification, whichever producer submits
\* them: no burst ever has two notifications delivered for it, and the data a
\* pending sender holds is of the highest level accepted so far.
C1_OneNotificationPerBurst ==
    \A k \in SeriesIds :
        /\ burstNotifs[k] <= 1
        /\ debouncedSenders[k].pending =>
              getItemLevel(debouncedSenders[k].latestData.ItemType) = debouncedSenders[k].maxLevel

C3_UnitCountIsEpisodesAccepted ==
    [][\A k \in SeriesIds :
          (Fires(k) /\ numSent' > numSent) =>
              lastSent'.episodeCount = debouncedSenders[k].epSeen]_vars

\* C4: after a Series-level notification of a key fired at T, a Season or
\* Episode event of the key arriving before T + 24 h creates no sender and
\* sends nothing.
C4_SeriesSuppressesLowerLevels ==
    [][\A data \in WebhookPayloads :
          ( /\ data.ItemType \in {"Season", "Episode"}
            /\ data.SeriesId \in SeriesIds
            /\ seriesFiredAt[data.SeriesId] # 0
            /\ now < seriesFiredAt[data.SeriesId] + SENT_CLEANUP_MS
            /\ Handles(data) )
          => UNCHANGED <<debouncedSenders, numSent>>]_vars

\* C5: while sentNotifications holds level L for a key, a webhook event of
\* the key with level <= L sends nothing, leaves debouncedSenders as it is,
\* starts no timer and leaves the sent record as it is.
C5_SupersededEventIsDropped ==
    [][\A data \in WebhookPayloads :
          ( /\ data.SeriesId \in SeriesIds
            /\ sentNotifications[data.SeriesId].has
            /\ getItemLevel(data.ItemType) <= sentNotifications[data.SeriesId].level
            /\ Handles(data) )
          => UNCHANGED <<debouncedSenders, sentNotifications, cleanupTimers,
                         numSent, lastSent>>]_vars

\* an event was dropped against a sent record while a sender was pending
C5_Witness ==
    /\ skipReason = "level"
    /\ \E k \in SeriesIds : sentNotifications[k].has /\ debouncedSenders[k].pending

\* C6: for the poller and for the socket client, the stamps of any two
\* observations of one item that were handed on lie at least 24 h apart,
\* however the poll cycles or message handlers interleave.
C6_OneHandoffPerWindow ==
    \A p \in DOMAIN handoffs : \A i \in ItemIds :
        \A a, b \in 1..Len(handoffs[p][i]) :
            a < b => \/ handoffs[p][i][b] - handoffs[p][i][a] >= SEEN_THRESHOLD
                     \/ handoffs[p][i][a] - handoffs[p][i][b] >= SEEN_THRESHOLD

\* a poll cycle skipped an item as seen while another cycle was in flight,
\* and the item had been handed on once
C6_Witness ==
    /\ skipReason = "seen"
    /\ \A run \in Runs : pollRuns[run].running
    /\ \E i \in ItemIds : Len(handoffs["poller"][i]) = 1

\* C7: no failure terminates the process.
C7_NeverFatal == ~crashed

\* C8: with no library detected, an event is suppressed exactly when the
\* mapping is non-empty, on the webhook, the poller and the socket path.
C8_NullLibraryRouting ==
    [][(~DroppedEarly /\ EventStep(Null)) =>
          (Suppressed <=> DOMAIN notificationLibraries # {})]_vars

\* C9: with a non-empty mapping, an event of a detected library that is not
\* a key of the mapping is not delivered and leaves debouncedSenders,
\* sentNotifications and pendingRequests unchanged, on every path.
C9_UnmappedLibraryIsDropped ==
    [][\A libraryId \in LibraryIds :
          ( /\ DOMAIN notificationLibraries # {}
            /\ Truthy(libraryId)
            /\ libraryId \notin DOMAIN notificationLibraries
            /\ EventStep(libraryId) )
          => UNCHANGED <<debouncedSenders, sentNotifications, cleanupTimers,
                         pendingRequests, numSent, lastSent>>]_vars

\* a webhook event was dropped for a library that is not a key of the mapping
C9_Witness ==
    /\ method = "webhook"
    /\ skipReason = "library"
    /\ DOMAIN notificationLibraries # {}

\* C10: with a non-empty mapping, an event of a library that is a key of the
\* mapping is never suppressed, and what is delivered at once goes to the
\* mapped channel, or to the default channel when the mapped value is blank.
C10_MappedLibraryIsDelivered ==
    [][\A libraryId \in DOMAIN notificationLibraries :
          (~DroppedEarly /\ EventStep(libraryId)) =>
              /\ ~Suppressed
              /\ numSent' > numSent =>
                    lastSent'.channel = Or(notificationLibraries[libraryId],
                                           JELLYFIN_CHANNEL_ID)]_vars

(***************************************************************************)
(* Properties of library resolution.                                       *)
(***************************************************************************)
\* the known library that has id as its virtual folder id or collection id
IsLibraryId(id) ==
    \E n \in DOMAIN fetchLibraries :
        id \in {fetchLibraries[n].ItemId, fetchLibraries[n].CollectionId}

LibraryWithId(id) ==
    fetchLibraries[CHOOSE n \in DOMAIN fetchLibraries :
                      id \in {fetchLibraries[n].ItemId, fetchLibraries[n].CollectionId}]

\* a movies-only library for a TV item, or a shows-only library for a Movie
Incompatible(CollectionType, itemType) ==
    \/ CollectionType = "movies" /\ itemType \in {"Series", "Season", "Episode"}
    \/ CollectionType = "tvshows" /\ itemType = "Movie"

\* C11: whatever the item type, the catalog and the path taken (the id in
\* the payload, an ancestor matched by id or by path, the parent of the
\* item, the recursive query), a finished resolution never names a library
\* whose content type is incompatible with the item type.
C11_ResolvedLibraryIsTypeCompatible ==
    (resolve.phase = "done" /\ IsLibraryId(resolve.libraryId))
        => ~Incompatible(LibraryWithId(resolve.libraryId).CollectionType, resolve.itemType)

\* C12: on every producer path the routing key a finished resolution hands
\* to the channel lookup is null or the virtual folder id of a known
\* library: never a collection id, an unknown id or undefined.
C12_RoutingKeyIsNullOrVirtualId ==
    resolve.phase = "done" => (resolve.key = Null \/ resolve.key \in VirtualIds)

(***************************************************************************)
(* Properties of the ingest boundary.                                      *)
(***************************************************************************)
\* C13: an event that lacks its item identifier or its item type is
\* rejected by the webhook handler: no notification is ever delivered for
\* an event without an ItemId or without an ItemType.
C13_MalformedEventIsRejected ==
    numSent > 0 => (Truthy(lastSent.ItemId) /\ Truthy(lastSent.ItemType))

\* the event has no grouping key: a Movie, or a TV item without SeriesId
NoGroupingKey(data) ==
    \/ data.ItemType = "Movie"
    \/ IsTv(data) /\ ~Truthy(data.SeriesId)

\* C14: a webhook event without a grouping key that is not dropped is handed
\* to processAndSendNotification in the same step (episode count 0), and the
\* step leaves debouncedSenders, the timers and sentNotifications as they are.
C14_KeylessEventIsSentAtOnce ==
    [][\A data \in WebhookPayloads :
          ( /\ NoGroupingKey(data)
            /\ skipReason' = ""
            /\ Handles(data) )
          => /\ UNCHANGED <<debouncedSenders, sentNotifications, cleanupTimers>>
             /\ pendingRequests' = TakeRequesters(pendingRequests, data)
             /\ numSent' # numSent
                  => /\ numSent' = numSent + 1
                     /\ lastSent'.ItemId = data.ItemId
                     /\ lastSent'.episodeCount = 0]_vars

\* a TV item without SeriesId was delivered while a sender was pending
C14_Witness ==
    /\ numSent > 0
    /\ lastSent.ItemType = "Episode"
    /\ ~Truthy(lastSent.SeriesId)
    /\ \E k \in SeriesIds : debouncedSenders[k].pending

\* C15: with the toggle of an item type set to "false", no producer delivers
\* a notification for an item of that type.
C15_DisabledTypeIsNeverDelivered ==
    numSent > 0 => lastSent.ItemType \notin notifyDisabled

(***************************************************************************)
(* Properties of delivery failures.                                        *)
(***************************************************************************)
\* C16: a delivery that fails is not retried and undoes nothing.  When the
\* debounced callback of a key runs, the sent record of the key is written
\* with the level of the data sent and the sender is deleted, whatever
\* Discord answers.  When the poller or the socket client hands an item to
\* the notifier and Discord fails, the item is stamped as seen all the same
\* and nothing is delivered; and either of them delivers an item only when
\* its previous stamp is a full retention window old.
C16_FailedDeliveryKeepsTheDecision ==
    [][ /\ \A k \in SeriesIds, outcome \in Outcomes :
              DebouncedSenderFires(k, outcome)
                  => /\ sentNotifications'[k].has
                     /\ sentNotifications'[k].level =
                            getItemLevel(debouncedSenders[k].latestData.ItemType)
                     /\ debouncedSenders'[k] = NoSender
        /\ \A run \in Runs, libraryId \in LibraryIds :
              ( /\ method = "polling"
                /\ skipReason' = ""
                /\ PollItem(run, libraryId, "fail") )
                  => /\ pollerSeenItems'[RecentlyAdded[pollRuns[run].idx].Id] = pollRuns[run].now
                     /\ UNCHANGED <<numSent, lastSent>>
        /\ \A run \in Runs, libraryId \in LibraryIds :
              ( /\ method = "websocket"
                /\ skipReason' = ""
                /\ processNewItem(run, TRUE, libraryId, "fail") )
                  => /\ socketSeenItems'[ItemsAdded[socketRuns[run].idx].Id] = now
                     /\ UNCHANGED <<numSent, lastSent>>
        /\ \A i \in ItemIds :
              (method # "webhook" /\ numSent' > numSent /\ lastSent'.ItemId = i)
                  => /\ ~RecentlySeen(pollerSeenItems[i], pollerSeenItems'[i])
                     /\ ~RecentlySeen(socketSeenItems[i], socketSeenItems'[i]) ]_vars

\* a debounced callback ran, Discord failed, and the record stands
C16_Witness ==
    /\ crashed
    /\ \E k \in SeriesIds : sentNotifications[k].has /\ ~debouncedSenders[k].pending

\* C17: one failed lookup is only a non-match.  When the payload carries no
\* library id, the Ancestors request of the webhook handler fails and the
\* parent of the item is a known library of a compatible type (so the
\* parent-chain strategy matches it), resolution still returns a library.
C17_FailedLookupIsOnlyANonMatch ==
    ( /\ resolve.phase = "done"
      /\ resolve.path = "webhook"
      /\ ~Truthy(resolve.hint)
      /\ resolve.failing.kind = "ancestors"
      /\ "i" \in Catalogs[resolve.cat].items
      /\ IsLibraryId(Catalogs[resolve.cat].parent["i"])
      /\ ~Incompatible(LibraryWithId(Catalogs[resolve.cat].parent["i"]).CollectionType,
                       resolve.itemType) )
        => resolve.libraryId # Null

\* C18: the parent-chain walk of the poller terminates for every catalog,
\* cyclic or deep: findLibraryId is never entered deeper than MAX_DEPTH + 1,
\* fetches at most MAX_DEPTH parents, returns null when the depth limit stops
\* it, and every walk that was started comes to its return.
C18_WalkTerminatesWithinDepth ==
    /\ [](resolve.phase \in {"walking", "done"} /\ resolve.path = "poller"
            => /\ resolve.depth <= MAX_DEPTH + 1
               /\ resolve.hops <= MAX_DEPTH
               /\ (resolve.phase = "done" /\ resolve.depth > MAX_DEPTH)
                      => resolve.libraryId = Null)
    /\ (resolve.phase = "walking") ~> (resolve.phase = "done")

\* the walk of a cyclic catalog was stopped by the depth limit
C18_Witness ==
    /\ resolve.phase = "done"
    /\ resolve.cat = "cycle"
    /\ resolve.depth > MAX_DEPTH
    /\ resolve.hops = MAX_DEPTH

(***************************************************************************)
(* Properties of pending senders.                                          *)
(***************************************************************************)
\* C19: a pending sender of a key goes away only in the step in which its
\* own debounced callback runs, and that step hands the sender's latestData
\* to processAndSendNotification once: no webhook event, routing decision,
\* stop of the bot or start of the bot removes a pending sender.
C19_PendingEntryLeavesOnlyByFiring ==
    [][\A k \in SeriesIds :
          (debouncedSenders[k].pending /\ ~debouncedSenders'[k].pending)
              => /\ Fires(k)
                 /\ pendingRequests' =
                        TakeRequesters(pendingRequests, debouncedSenders[k].latestData)
                 /\ numSent' \in {numSent, numSent + 1}
                 /\ numSent' = numSent + 1
                        => lastSent'.ItemId = debouncedSenders[k].latestData.ItemId]_vars

\* the bot was stopped and started again while a sender was pending
C19_Witness ==
    /\ discordClient > 1
    /\ \E k \in SeriesIds :
          /\ debouncedSenders[k].pending
          /\ debouncedSenders[k].client # discordClient

(***************************************************************************)
(* Properties of the dedup records.                                        *)
(***************************************************************************)
\* the map holds a record older than the retention window at time t
HoldsOldRecord(seenItems, t) ==
    \E i \in DOMAIN seenItems : seenItems[i] # 0 /\ t - seenItems[i] > SEEN_THRESHOLD

\* C20: the dedup records are swept in both producers: when a poll cycle
\* ends, the poller's map holds no record older than the retention window
\* (by the clock of that cycle), and when a call of processNewItem returns,
\* neither does the socket client's map.
C20_SweepRemovesOldRecords ==
    [][ /\ \A run \in Runs :
              (pollRuns[run].running /\ ~pollRuns'[run].running)
                  => ~HoldsOldRecord(pollerSeenItems', pollRuns[run].now)
        /\ (\E run \in Runs, detailsOk \in BOOLEAN, libraryId \in LibraryIds, outcome \in Outcomes :
                processNewItem(run, detailsOk, libraryId, outcome))
              => ~HoldsOldRecord(socketSeenItems', now) ]_vars

(***************************************************************************)
(* Properties of the library exclusion list.                               *)
(***************************************************************************)
\* C21: a webhook event whose library id is in the excluded-libraries list
\* produces no notification: the handler neither delivers anything for it
\* nor arms a sender with it.
C21_ExcludedLibraryIsNeverNotified ==
    [][\A data \in WebhookPayloads, libraryId \in excludedLibraries :
          HandlesFrom(data, libraryId)
              => UNCHANGED <<numSent, lastSent, debouncedSenders>>]_vars

(***************************************************************************)
(* The permission system.                                                  *)
(***************************************************************************)
\* bit is set in the two's complement representation of n
BitIsSet(n, bit) == (n \div bit) % 2 = 1

AnyBitIsSet(n, bits) == \E bit \in bits : BitIsSet(n, bit)

ManagementBits ==
    {Permission.MANAGE_SETTINGS, Permission.MANAGE_USERS, Permission.MANAGE_REQUESTS,
     Permission.MANAGE_ISSUES, Permission.MANAGE_BLACKLIST}

AutoApproveBits ==
    {Permission.AUTO_APPROVE, Permission.AUTO_APPROVE_MOVIE, Permission.AUTO_APPROVE_TV,
     Permission.AUTO_APPROVE_4K, Permission.AUTO_APPROVE_4K_MOVIE,
     Permission.AUTO_APPROVE_4K_TV}

HighestPrivilege(n) ==
    IF BitIsSet(n, Permission.ADMIN) THEN "admin"
    ELSE IF AnyBitIsSet(n, ManagementBits) THEN "manager"
    ELSE IF AnyBitIsSet(n, AutoApproveBits) THEN "auto-approve"
    ELSE "user"

C23_PermissionCheckReadsTheBits ==
    (/\ perm.phase = "checked"
     /\ ~IsInvalid(perm.userPermissions)
     /\ perm.permission # One(Permission.NONE))
        => LET u == perm.userPermissions.value
               listed == {perm.permission.list[i] : i \in DOMAIN perm.permission.list}
           IN  /\ ~perm.permission.isArray
                    => (perm.result <=> BitIsSet(u, perm.permission.list[1]))
               /\ (perm.permission.isArray /\ perm.type = "and")
                    => (perm.result => \A bit \in listed : BitIsSet(u, bit))

\* C24: a permission value that is not valid (a string, null, undefined or a
\* negative number) is classified as 'user' and analyzePermissions reports
\* isValid = false for it, while a large non-negative value with the ADMIN
\* bit set is classified 'admin' with isValid = true.
C24_InvalidValueIsAPlainUser ==
    perm.phase = "classified"
        => /\ (IsInvalid(perm.userPermissions) \/ perm.userPermissions.value < 0)
                => (perm.actualType = "user" /\ ~perm.analysis.isValid)
           /\ (/\ ~IsInvalid(perm.userPermissions)
               /\ perm.userPermissions.value >= 0
               /\ BitIsSet(perm.userPermissions.value, Permission.ADMIN))
                => (perm.actualType = "admin" /\ perm.analysis.isValid)

(***************************************************************************)
(* Requests that overtake each other.                                      *)
(***************************************************************************)
Resumes(request) ==
    \E libraryId \in LibraryIds, outcome \in Outcomes : Resume(request, libraryId, outcome)

\* the sender of the key as the resumed request finds it
Found(SeriesId) ==
    IF debouncedSenders[SeriesId].pending THEN debouncedSenders[SeriesId].episodeCount ELSE 0

EveryEntryIsArmed ==
    \A k \in SeriesIds :
        debouncedSenders[k].pending
            => /\ debouncedSenders[k].lastCallTime > 0
               /\ now - debouncedSenders[k].lastCallTime <= WEBHOOK_DEBOUNCE_MS

ResumeIsOneStep ==
    \A request \in inFlight :
        Resumes(request) =>
            LET k == request.data.SeriesId
                accepted == ~IsSuperseded(getItemLevel(request.data.ItemType), SentLevel(k))
            IN  IF accepted
                THEN /\ debouncedSenders'[k].pending
                     /\ debouncedSenders'[k].lastCallTime = now
                     /\ request.data.ItemType = "Episode"
                            => debouncedSenders'[k].episodeCount >= Found(k) + 1
                     /\ request.data.ItemType # "Episode"
                            => debouncedSenders'[k].episodeCount = Found(k)
                ELSE UNCHANGED debouncedSenders

\* C25: however webhook requests of one key overtake each other while they
\* await the library detection, the sent-level check, the creation or update
\* of the pending entry and the arming of its timer are one step: a pending
\* entry is never found unarmed, an accepted event leaves the entry of its
\* key armed by its own call, and an accepted Episode event adds its unit to
\* the count it found, so no increment is lost.
C25_CoordinatorStepIsAtomic ==
    []EveryEntryIsArmed /\ [][ResumeIsOneStep]_vars

\* an Episode request overtook another request of the same series: it has
\* been counted while the other is still suspended
C25_Witness ==
    /\ \E request \in inFlight : request.data.SeriesId = "S" /\ request.slot = 1
    /\ debouncedSenders["S"].pending
    /\ debouncedSenders["S"].episodeCount >= 3
    /\ debouncedSenders["S"].lastCallTime = now

(***************************************************************************)
(* Properties of the pending entry and of the sent record.                 *)
(***************************************************************************)
\* C26: within one window an incoming event of the key replaces the data
\* the pending entry holds if and only if its level is >= the level of the
\* data held; a lower-level event never replaces a higher-level one, and what
\* the entry hands over when it fires is of the highest level it accepted.
C26_ReplacedIffLevelNotLower ==
    [][ /\ \A request \in inFlight :
              LET k == request.data.SeriesId
                  held == debouncedSenders[k].latestData
              IN  (debouncedSenders[k].pending /\ Resumes(request))
                      => debouncedSenders'[k].latestData =
                            IF getItemLevel(request.data.ItemType) >= getItemLevel(held.ItemType)
                            THEN request.data
                            ELSE held
        /\ \A k \in SeriesIds :
              (Fires(k) /\ numSent' > numSent)
                  => /\ lastSent'.ItemId = debouncedSenders[k].latestData.ItemId
                     /\ getItemLevel(lastSent'.ItemType) = debouncedSenders[k].maxLevel ]_vars

\* an Episode event arrived at an entry that holds a Series event and did
\* not replace it
C26_Witness ==
    /\ debouncedSenders["S"].pending
    /\ debouncedSenders["S"].latestData.ItemType = "Series"
    /\ debouncedSenders["S"].epSeen >= 1
    /\ debouncedSenders["S"].lastEventAt > debouncedSenders["S"].arr

\* C27: when the pending entry of a key fires, the sent record of the key is
\* set to the level of the event handed over, with its cleanup deadline, and
\* the entry is deleted: right after the firing the key has a record of that
\* level and no pending entry.
C27_FiringRecordsTheLevelSent ==
    [][\A k \in SeriesIds :
          Fires(k) =>
              /\ sentNotifications'[k] =
                    SentRecord(getItemLevel(debouncedSenders[k].latestData.ItemType),
                               now + SENT_CLEANUP_MS)
              /\ debouncedSenders'[k] = NoSender
              /\ numSent' > numSent
                    => getItemLevel(lastSent'.ItemType) = sentNotifications'[k].level]_vars

\* an entry has fired and delivered: the record holds the level delivered
\* and nothing is pending
C27_Witness ==
    /\ ~crashed
    /\ numSent >= 1
    /\ lastSent.SeriesId = "S"
    /\ sentNotifications["S"].has
    /\ sentNotifications["S"].level = getItemLevel(lastSent.ItemType)
    /\ ~debouncedSenders["S"].pending

\* C28: whenever a firing overwrites a sent record that is still there, the
\* new level is strictly higher than the level it replaces.
C28_OverwriteRaisesTheLevel ==
    [][\A k \in SeriesIds :
          (sentNotifications[k].has /\ Fires(k))
              => sentNotifications'[k].level > sentNotifications[k].level]_vars

\* a record was overwritten while its own cleanup timer was still running
C28_Witness ==
    /\ sentNotifications["S"].has
    /\ sentNotifications["S"].level >= 2
    /\ Cardinality({timer \in cleanupTimers : timer.SeriesId = "S"}) >= 2

(***************************************************************************)
(* Properties of ancestor matching.                                        *)
(***************************************************************************)
\* the ancestor is the library, by one of its ids or by a location that is a
\* prefix of its path
MatchesLibrary(ancestor, library) ==
    \/ ancestor.Id \in {library.CollectionId, library.ItemId}
    \/ PathMatch(ancestor, library)

\* the compatible libraries that the n-th ancestor of the item matches
CompatibleMatches(cat, itemType, n) ==
    LET ancestors == Ancestors(Catalogs[cat], "i", MaxAncestors)
    IN  {l \in DOMAIN fetchLibraries :
            /\ n \in DOMAIN ancestors
            /\ MatchesLibrary(ancestors[n], fetchLibraries[l])
            /\ ~Incompatible(fetchLibraries[l].CollectionType, itemType)}

\* the webhook handler ran findLibraryByAncestors and got its ancestors
AncestorsMatched ==
    /\ resolve.phase = "done"
    /\ resolve.path = "webhook"
    /\ ~Truthy(resolve.hint)
    /\ resolve.failing.kind # "ancestors"
    /\ "i" \in Catalogs[resolve.cat].items

\* C29: during ancestor matching an ancestor that matches, by id or by path
\* prefix, only a library of an incompatible type is passed over and the
\* search goes on: the library returned is a compatible library matched by
\* the nearest ancestor that matches one, and null is returned only when no
\* ancestor matches a compatible library.
C29_IncompatibleMatchIsSkipped ==
    AncestorsMatched =>
        LET matching == {n \in 1..MaxAncestors :
                            CompatibleMatches(resolve.cat, resolve.itemType, n) # {}}
        IN  /\ matching # {}
                => LET nearest == CHOOSE n \in matching : \A m \in matching : n <= m
                   IN  resolve.libraryId \in
                          {fetchLibraries[l].ItemId :
                              l \in CompatibleMatches(resolve.cat, resolve.itemType, nearest)}
            /\ resolve.libraryId = Null => matching = {}

\* an Episode below a movies library that lies below a shows library was
\* resolved to the shows library
C29_Witness ==
    /\ AncestorsMatched
    /\ resolve.cat = "mixed"
    /\ resolve.itemType = "Episode"
    /\ resolve.libraryId = "vT"

(***************************************************************************)
(* Properties of the phrasing.                                             *)
(***************************************************************************)
\* C30: the episode-batch phrasing is used exactly when the event handed
\* over by a firing is an Episode and more than one Episode event was
\* observed since the entry was created; a single Episode event yields the
\* single-episode phrasing.
C30_BatchPhrasingNeedsTwoEpisodes ==
    [][\A k \in SeriesIds :
          (Fires(k) /\ numSent' > numSent)
              => (lastSent'.phrasing = "episodes-batch"
                    <=> (lastSent'.ItemType = "Episode" /\ debouncedSenders[k].epSeen > 1))]_vars


(***************************************************************************)
(* The push-socket client: reconnects.                                     *)
(***************************************************************************)
\* a step that opens a new connection
Connects == wsClient'.created > wsClient.created

\* a step that sets a reconnect timer
SchedulesReconnect == wsClient'.timers > wsClient.timers

\* C31: after stop() no new connection is opened until start() is called
\* again: while the client is stopped a closing socket sets no reconnect
\* timer, and a timer that expires does not connect.
C31_StoppedClientStaysDisconnected ==
    [][(~wsClient.isRunning /\ ~start) => (~Connects /\ ~SchedulesReconnect)]_vars

\* stop() has closed the socket while a reconnect timer is still pending
C31_Witness ==
    /\ ~wsClient.isRunning
    /\ wsClient.timers > 0
    /\ \E id \in SocketIds : wsClient.sockets[id] = "closing"

\* a step in which a socket of the running client closes
FailsWhileRunning ==
    /\ wsClient.isRunning
    /\ \E id \in SocketIds : OnClose(id)

\* a step in which a socket opens
Opens == \E id \in SocketIds : OnOpen(id)

\* C32: the close that follows n consecutive failed connections sets a
\* reconnect timer of min(1000 * 2^n, 60000) ms: at most 60 s, never shorter
\* than the delay before it unless a connection opened in between; an open
\* resets the attempt counter to 0; there is no retry limit, and an expiring
\* timer of the running client connects.
C32_ReconnectDelayDoublesUpToOneMinute ==
    [][/\ FailsWhileRunning =>
            /\ SchedulesReconnect
            /\ wsClient'.lastDelay = Min(1000 * 2^wsClient.failures, 60000)
            /\ wsClient'.lastDelay <= 60000
            /\ wsClient.failures > 0 => wsClient'.lastDelay >= wsClient.lastDelay
       /\ Opens => wsClient'.reconnectAttempts = 0
       /\ (ReconnectTimerFires /\ wsClient.isRunning) => Connects]_vars

\* the delay has reached the cap of one minute
C32_Witness ==
    /\ wsClient.failures >= 7
    /\ wsClient.lastDelay = 60000
    /\ wsClient.timers > 0

\* C36: at most one socket is open or connecting and at most one reconnect
\* timer is pending, whatever the order of start, stop, open, close and error.
C36_OneSocketOneTimer ==
    /\ Cardinality(LiveSockets(wsClient)) <= 1
    /\ wsClient.timers <= 1


(***************************************************************************)
(* Registration.                                                           *)
(***************************************************************************)
\* C33: registration succeeds only while no account exists, so at most one
\* account is stored after any sequence or interleaving of register requests.
C33_AtMostOneAccount == Len(auth.USERS) <= 1


(***************************************************************************)
(* Availability DMs.                                                       *)
(***************************************************************************)
\* the notifications in progress that took a Set of requesters
Holders == {slot \in NotifySlots : tracking.running[slot].entry # 0}

\* C35: a user recorded as requester of a key is sent the availability DM at
\* most once per request, and two notifications in progress never hold the
\* same Set of requesters: the first one to look the key up removes it.
C35_OneDmPerRequest ==
    /\ \A key \in TrackedKeys, user \in DiscordUsers :
           tracking.dmed[key][user] <= tracking.asked[key][user]
    /\ \A a, b \in Holders :
           tracking.running[a].entry = tracking.running[b].entry => a = b
    /\ \A slot \in Holders, key \in TrackedKeys :
           tracking.running[slot].entry # tracking.entryOf[key]

\* two notifications for the same tmdb id in progress: the first holds the
\* requesters, the second looked the key up and found nothing
C35_Witness ==
    \E a, b \in NotifySlots :
        /\ tracking.running[a].phase = "dms"
        /\ tracking.running[a].key = "t1-tv"
        /\ tracking.running[b].phase = "sending"
        /\ tracking.running[b].usersToNotify = <<>>
        /\ tracking.pendingRequests["t1-tv"] = <<>>
        /\ \E user \in DiscordUsers : tracking.dmed["t1-tv"][user] = 1


(***************************************************************************)
(* The delivery target of a coalesced notification.                        *)
(***************************************************************************)
\* the channel the router gives the event
RoutedChannel(data) == WebhookRoute(notificationLibraries, LibraryOf(data)).channel

\* C34: the notification of a debounce window is delivered to the channel
\* routed for the event that opened the window: the target is set when the
\* entry is created, stays as it is while events are coalesced, also when the
\* event now held was routed to another channel, and is the channel the
\* firing sends to.
C34_TargetIsTheOpeningEventsChannel ==
    [][\A k \in SeriesIds :
          LET d == debouncedSenders[k]
              e == debouncedSenders'[k]
          IN  /\ (~d.pending /\ e.pending) => e.libraryChannelId = RoutedChannel(e.latestData)
              /\ (d.pending /\ e.pending) => e.libraryChannelId = d.libraryChannelId
              /\ (Fires(k) /\ numSent' = numSent + 1) => lastSent'.channel = d.libraryChannelId]_vars

\* the notification of a window opened by an event routed to chA was
\* delivered to chA although the event it carries was routed elsewhere
C34_Witness ==
    /\ numSent > 0
    /\ lastSent.ItemType = "Series"
    /\ lastSent.channel = "chA"
    /\ RoutedChannel(lastSent) = JELLYFIN_CHANNEL_ID


(***************************************************************************)
(* The Discord client.                                                     *)
(***************************************************************************)
\* C37: at most one Discord client exists at a time: no interleaving of
\* start-bot, stop-bot, save-config restarts and the auto-start creates a
\* second client while a first one is logged in or still logging in.
C37_OneDiscordClient == Cardinality(ActiveClients(bot)) <= 1


(***************************************************************************)
(* The caches of the Jellyseerr client.                                    *)
(***************************************************************************)
\* a fetch of name in which both list requests fail
FailedFetch(name) ==
    \E fetchDetails \in BOOLEAN : fetchCached(name, fetchDetails, "fail", "fail")

\* C38: a failed fetch returns the list cached before and keeps it: it never
\* replaces a non-empty cached list by an empty one and never restarts the
\* time the cache stays valid.
C38_FailedFetchKeepsTheCache ==
    [][\A name \in CacheNames :
          (FailedFetch(name) /\ caches.store[name].cached /\ caches.store[name].value # <<>>)
              => /\ caches'.store[name] = caches.store[name]
                 /\ caches'.returned = caches.store[name].value]_vars


(***************************************************************************)
(* The dedup records of the poller and of the socket client.               *)
(***************************************************************************)
\* a turn of the poll loop of run in this step
Polls(run) == pollRuns[run].running /\ pollRuns'[run] # pollRuns[run]

\* a call of processNewItem of run in this step
Processes(run) == socketRuns[run].running /\ socketRuns'[run] # socketRuns[run]

LastOf(seq) == seq[Len(seq)]

\* the observation of item at time t finds a record and is a duplicate / is due again
Duplicate(lastSeen, t) == lastSeen # 0 /\ t - lastSeen < SEEN_THRESHOLD
DueAgain(lastSeen, t) == lastSeen # 0 /\ t - lastSeen >= SEEN_THRESHOLD

\* C39: a suppressed duplicate observation does not refresh the record of
\* its item: the record holds the stamp of the last observation that was
\* processed, and an observation made 24 h or more after that stamp is
\* processed again and stamps the record anew.
C39_SuppressedDuplicateDoesNotRefresh ==
    [][\A run \in Runs :
          LET polled == RecentlyAdded[pollRuns[run].idx].Id
              pushed == ItemsAdded[socketRuns[run].idx].Id
              t == pollRuns[run].now
          IN  /\ (Polls(run) /\ Duplicate(pollerSeenItems[polled], t))
                    => /\ pollerSeenItems'[polled] = pollerSeenItems[polled]
                       /\ handoffs'["poller"][polled] = handoffs["poller"][polled]
              /\ ( /\ Polls(run)
                   /\ DueAgain(pollerSeenItems[polled], t)
                   /\ RecentlyAdded[pollRuns[run].idx].Type \notin notifyDisabled )
                    => /\ pollerSeenItems'[polled] = t
                       /\ handoffs'["poller"][polled] = Append(handoffs["poller"][polled], t)
              /\ (Processes(run) /\ Duplicate(socketSeenItems[pushed], now))
                    => /\ socketSeenItems'[pushed] = socketSeenItems[pushed]
                       /\ handoffs'["socket"][pushed] = handoffs["socket"][pushed]
              /\ (Processes(run) /\ DueAgain(socketSeenItems[pushed], now))
                    => /\ socketSeenItems'[pushed] = now
                       /\ handoffs'["socket"][pushed] = Append(handoffs["socket"][pushed], now)
        /\ \A i \in ItemIds :
              /\ pollerSeenItems'[i] # 0 => pollerSeenItems'[i] = LastOf(handoffs'["poller"][i])
              /\ socketSeenItems'[i] # 0 => socketSeenItems'[i] = LastOf(handoffs'["socket"][i])]_vars

\* an item was processed, processed again exactly 24 h later, and a duplicate
\* observed after that was suppressed and left the second stamp in the record
C39_Witness ==
    /\ skipReason = "seen"
    /\ \E i \in ItemIds :
           \/ /\ Len(handoffs["poller"][i]) = 2
              /\ handoffs["poller"][i][2] - handoffs["poller"][i][1] = SEEN_THRESHOLD
              /\ pollerSeenItems[i] = handoffs["poller"][i][2]
              /\ method = "polling"
           \/ /\ Len(handoffs["socket"][i]) = 2
              /\ handoffs["socket"][i][2] - handoffs["socket"][i][1] = SEEN_THRESHOLD
              /\ socketSeenItems[i] = handoffs["socket"][i][2]
              /\ method = "websocket"

====
